---- MODULE Spec2Model ----
(***************************************************************************)
(* Model of the orchestration pipeline of the multi-agent framework:       *)
(*   - DependencyResolver.resolve      (dependency/dependency_resolver.py) *)
(*   - AgentRegistry, BaseAgent        (registry/, agents/)                *)
(*   - MemoryManager, VectorStore      (memory/)                           *)
(*   - MetaOrchestrator.execute        (orchestrator/meta_orchestrator.py) *)
(*   - the SSE bridge orchestrate_scenario (api/main.py)                   *)
(***************************************************************************)
EXTENDS Integers, Sequences, FiniteSets, TLC

VARIABLES
    \* ---- resolver called on its own (SpecResolver)
    rpc,              \* "input" | "done"
    rcfg,             \* agent_configs handed to resolve
    rres,             \* what resolve returned or raised
    \* ---- one streaming request (Spec)
    scenario,         \* the request's scenario text
    wpc,              \* position of the worker thread run_orchestrator
    exc,              \* the exception caught by run_orchestrator: str(e) and
                      \* the step that raised it, or NoExc
    emitted,          \* every event handed to event_callback, in call order
    loopReady,        \* callbacks scheduled with call_soon_threadsafe, FIFO
    queue,            \* the asyncio.Queue of the request
    channel,          \* every message ever put on the queue, in order
    delivered,        \* what event_generator has yielded
    cpc,              \* consumer: "none" | "waiting" | "stopped"
    \* ---- orchestrator state
    store,            \* the ChromaDB collection (persists across runs)
    store0,           \* the collection as it was when the request arrived
    memory_context,   \* retrieved at step 1
    short_term,       \* MemoryManager.short_term.agent_outputs
    agent_configs,    \* returned by analyze_scenario
    agents,           \* BaseAgent objects created so far, in creation order
    agents0,          \* how many of them an earlier request had created
    registry,         \* AgentRegistry._agents of the latest orchestrator:
                      \* indices into agents, insertion order
    execution_order,  \* returned by resolve
    idx,              \* loop index (registration loop, execution loop)
    results,          \* per-agent results
    context,          \* shared context dict
    returned,         \* the value execute returned, or NoResult
    reasonCalls,      \* names for which reason_as_agent was invoked
    saveCalls,        \* number of save_execution_trace calls
    \* ---- the registry or the memory called on its own (SpecRegistry,
    \* ---- SpecMemory)
    rcall,            \* the last call: operation, argument, outcome
    ncalls,           \* calls made so far
    \* ---- concurrent requests and the model they select (SpecModels)
    LLM_MODEL,        \* the class attribute Config.LLM_MODEL
    runs              \* the worker threads started so far: the model of the
                      \* request, the thread's position, the agents left to
                      \* execute, and the model of each LLMService it built

resolverVars == <<rpc, rcfg, rres>>
registryVars == <<rcall, ncalls>>
modelVars    == <<LLM_MODEL, runs>>
bridgeVars   == <<scenario, wpc, exc, emitted, loopReady, queue, channel, delivered,
                  cpc>>
orchVars     == <<store, store0, memory_context, short_term, agent_configs, agents,
                  agents0, registry, execution_order, idx, results, context,
                  returned, reasonCalls, saveCalls>>
vars == <<resolverVars, registryVars, modelVars, bridgeVars, orchVars>>

----------------------------------------------------------------------------
(* Generic helpers *)

Range(s) == {s[i] : i \in DOMAIN s}

SeqsUpTo(S, n) == UNION {[1..k -> S] : k \in 0..n}

IsPrefix(s, t) == Len(s) <= Len(t) /\ \A i \in DOMAIN s : s[i] = t[i]

\* All orders in which a Python set with these elements may be iterated.
Perms(S) == {p \in [1..Cardinality(S) -> S] : Range(p) = S}

----------------------------------------------------------------------------
(* DependencyResolver.resolve *)

\* all_agents = {cfg["name"] for cfg in agent_configs}
AllAgents(cfgs) == {cfgs[i].name : i \in DOMAIN cfgs}

\* The (agent_name, dep) pairs in the order the nested loops visit them.
RECURSIVE DepPairs(_)
DepPairs(cfgs) ==
    IF cfgs = <<>> THEN <<>>
    ELSE [j \in 1..Len(Head(cfgs).dependencies) |->
              <<Head(cfgs).name, Head(cfgs).dependencies[j]>>]
         \o DepPairs(Tail(cfgs))

\* Mutant: a dependency of an agent on itself is skipped.
CountedPairsSkipSelf(cfgs) ==
    SelectSeq(DepPairs(cfgs), LAMBDA p : p[2] \in AllAgents(cfgs) /\ p[2] # p[1])

\* Mutant: the membership test `dep in all_agents` is dropped.
CountedPairsNoFilter(cfgs) == DepPairs(cfgs)

\* The pairs that pass `if dep in all_agents`; the others are only logged.
CountedPairs(cfgs) ==
    SelectSeq(DepPairs(cfgs), LAMBDA p : p[2] \in AllAgents(cfgs))

\* Mutant: a dependency named several times is counted once.
InDegreeDistinct(cfgs) ==
    [n \in AllAgents(cfgs) |->
        Cardinality({p \in Range(CountedPairs(cfgs)) : p[1] = n})]

\* in_degree after the graph is built: one count per pair that was kept.
InDegree(cfgs) ==
    [n \in AllAgents(cfgs) |->
        Len(SelectSeq(CountedPairs(cfgs), LAMBDA p : p[1] = n))]

\* graph[dep]: the dependents of dep, in append order (defaultdict(list)).
RECURSIVE Dependents(_, _)
Dependents(pairs, dep) ==
    IF pairs = <<>> THEN <<>>
    ELSE (IF Head(pairs)[2] = dep THEN <<Head(pairs)[1]>> ELSE <<>>)
         \o Dependents(Tail(pairs), dep)

Graph(cfgs) ==
    [d \in AllAgents(cfgs) |-> Dependents(CountedPairs(cfgs), d)]

\* Mutant: every name is put on the queue, whatever its in-degree.
InitialQueueAll(in_degree, setOrder) == setOrder

\* for name in all_agents: if in_degree[name] == 0: queue.append(name)
InitialQueue(in_degree, setOrder) ==
    SelectSeq(setOrder, LAMBDA n : in_degree[n] = 0)

\* for neighbor in graph[current]: in_degree[neighbor] -= 1; enqueue at 0
RECURSIVE Relax(_, _, _)
Relax(neighbors, in_degree, q) ==
    IF neighbors = <<>> THEN [in_degree |-> in_degree, queue |-> q]
    ELSE LET n == Head(neighbors)
             d == in_degree[n] - 1
         IN  Relax(Tail(neighbors), [in_degree EXCEPT ![n] = d],
                   IF d = 0 THEN Append(q, n) ELSE q)

\* while queue: current = queue.popleft(); execution_order.append(current)
RECURSIVE Kahn(_, _, _, _)
Kahn(q, order, in_degree, graph) ==
    IF q = <<>> THEN order
    ELSE LET current == Head(q)
             r == Relax(graph[current], in_degree, Tail(q))
         IN  Kahn(r.queue, Append(order, current), r.in_degree, graph)

\* in_degree when the while loop has ended.
RECURSIVE KahnInDegree(_, _, _)
KahnInDegree(q, in_degree, graph) ==
    IF q = <<>> THEN in_degree
    ELSE LET r == Relax(graph[Head(q)], in_degree, Tail(q))
         IN  KahnInDegree(r.queue, r.in_degree, graph)

\* Mutant: the length check is dropped, the partial order is returned.
OutcomeNoCheck(all_agents, order) ==
    [ok |-> TRUE, order |-> order, remaining |-> {}]

\* Mutant: the error names every input name.
OutcomeReportsAll(all_agents, order) ==
    IF Len(order) # Cardinality(all_agents)
    THEN [ok |-> FALSE, order |-> <<>>, remaining |-> all_agents]
    ELSE [ok |-> TRUE, order |-> order, remaining |-> {}]

\* if len(execution_order) != len(all_agents): raise ValueError(remaining)
Outcome(all_agents, order) ==
    IF Len(order) # Cardinality(all_agents)
    THEN [ok |-> FALSE, order |-> <<>>, remaining |-> all_agents \ Range(order)]
    ELSE [ok |-> TRUE, order |-> order, remaining |-> {}]

\* resolve(agent_configs); setOrder is the iteration order of the set all_agents.
Resolve(cfgs, setOrder) ==
    Outcome(AllAgents(cfgs),
            Kahn(InitialQueue(InDegree(cfgs), setOrder), <<>>,
                 InDegree(cfgs), Graph(cfgs)))

----------------------------------------------------------------------------
(* Inputs of the resolver on its own *)

ResolverNames == {"A", "B", "C"}
MaxConfigs == 2

\* Dependency lists over the names N: none, one name, two different names,
\* and one name twice.
DepLists(N) ==
    {<<>>} \cup {<<a>> : a \in N}
    \cup {p \in {<<"A", "B">>, <<"A", "C">>, <<"B", "C">>, <<"A", "A">>} :
             Range(p) \subseteq N}

ResolverConfigs ==
    [name : ResolverNames, dependencies : DepLists(ResolverNames)]

NoMsg == <<"none">>
NoExc == [msg |-> NoMsg, at |-> "none"]
NoResult == [none |-> TRUE]
NoCall == [op |-> "none"]

\* LLM_MODEL: str = os.getenv("LLM_MODEL", "llama-3.3-70b-versatile")
DefaultModel == "llama-3.3-70b-versatile"

\* The values of the query parameter `model`.
Models == {DefaultModel, "other-model"}

\* The models a single streaming request selects (Spec): those that differ
\* from the configured one, so that the write to Config.LLM_MODEL shows.
SelectedModels == Models \ {DefaultModel}

\* The request side and the orchestrator before any request.
IdleSystem ==
    /\ scenario = "" /\ wpc = "idle" /\ exc = NoExc
    /\ emitted = <<>> /\ loopReady = <<>> /\ queue = <<>> /\ channel = <<>>
    /\ delivered = <<>> /\ cpc = "none"
    /\ memory_context = <<>> /\ short_term = <<>> /\ agent_configs = <<>>
    /\ execution_order = <<>> /\ idx = 0
    /\ results = <<>> /\ context = <<>> /\ returned = NoResult
    /\ reasonCalls = <<>> /\ saveCalls = 0
    /\ LLM_MODEL = DefaultModel /\ runs = <<>>

InitResolver ==
    /\ rpc = "input"
    /\ rcfg \in SeqsUpTo(ResolverConfigs, MaxConfigs)
    /\ rres = [ok |-> TRUE, order |-> <<>>, remaining |-> {}]
    /\ store = <<>> /\ store0 = <<>>
    /\ agents = <<>> /\ agents0 = 0 /\ registry = <<>>
    /\ rcall = NoCall /\ ncalls = 0
    /\ IdleSystem

\* One call resolve(rcfg); the set all_agents iterates in some order.
ResolveCall ==
    /\ rpc = "input"
    /\ \E setOrder \in Perms(AllAgents(rcfg)) :
          rres' = Resolve(rcfg, setOrder)
    /\ rpc' = "done"
    /\ UNCHANGED <<rcfg, registryVars, modelVars, bridgeVars, orchVars>>

NextResolver == ResolveCall

SpecResolver == InitResolver /\ [][NextResolver]_vars

----------------------------------------------------------------------------
(* Inputs of one streaming request *)

\* Agent names the analysis may give; `scenario` is also the key of the
\* scenario text in the shared context.
PipelineNames == {"A", "scenario"}
MaxAgents == 2

PipelineConfigs ==
    [name : PipelineNames, role : {"role"}, responsibilities : {<<"task">>},
     dependencies : {<<>>} \cup {<<a>> : a \in PipelineNames}]

\* Scenario texts of a request: empty, whitespace only, and a real one.
Scenarios == {"", " ", "flood"}

\* str.strip()
Strip(s) == IF s \in {"", " "} THEN "" ELSE s

\* What is wrong with an entry of "agents": it is no object, a required key
\* is missing, or responsibilities / dependencies is no list.
BadShapes ==
    {"not_object", "missing_key", "responsibilities_not_list",
     "dependencies_not_list"}

\* The entries of "agents": well-formed specs, and one entry per defect (its
\* config gives the name the error message quotes).
AnalysisEntries ==
    {[shape |-> "ok", config |-> c] : c \in PipelineConfigs}
    \cup {[shape |-> b,
           config |-> [name |-> "A", role |-> "role",
                       responsibilities |-> <<"task">>, dependencies |-> <<>>]] :
             b \in BadShapes}

\* What the analysis call can come back with: the client raises, the text
\* holds no JSON, the JSON has no "agents" key, "agents" is no list, or it is
\* a list of entries.
AnalysisResponses ==
    {[kind |-> k, agents |-> <<>>] :
        k \in {"raise", "text", "no_agents_key", "agents_not_list"}}
    \cup {[kind |-> "agents", agents |-> c] :
             c \in SeqsUpTo(AnalysisEntries, MaxAgents)}

\* What a reasoning call can come back with: the client raises, the text holds
\* no JSON, a JSON object without the three keys or with them (set as the
\* model pleased), a JSON list.
ReasonResponses == {"raise", "text", "object_empty", "object_full", "list"}

\* The trace an earlier request stored: its one agent was "A".
OldTrace ==
    [id |-> 0, content |-> <<"earlier", <<"A">>, <<<<"A", <<"llm">>>>>>>>,
     metadata |-> [scenario |-> "earlier"]]

InitialStores == {<<>>, <<OldTrace>>}

----------------------------------------------------------------------------
(* LLMService *)

Ok(v) == [raised |-> FALSE, msg |-> NoMsg, value |-> v]
Raised(m) == [raised |-> TRUE, msg |-> m, value |-> <<>>]

\* The ValueError _validate_structure raises for the entry at position i.
EntryError(entry, i) ==
    IF entry.shape = "not_object"
    THEN <<"Agent at index is not a dictionary.", i - 1>>
    ELSE IF entry.shape = "missing_key"
    THEN <<"Agent is missing required keys", entry.config.name>>
    ELSE IF entry.shape = "responsibilities_not_list"
    THEN <<"'responsibilities' must be a list.", entry.config.name>>
    ELSE IF entry.shape = "dependencies_not_list"
    THEN <<"'dependencies' must be a list.", entry.config.name>>
    ELSE NoMsg

\* Mutant: the entries of "agents" are not looked at.
ValidateStructureListOnly(resp) ==
    IF resp.kind = "no_agents_key" THEN <<"LLM response missing 'agents' key.">>
    ELSE IF resp.kind = "agents_not_list" \/ Len(resp.agents) = 0
    THEN <<"'agents' must be a non-empty list.">>
    ELSE NoMsg

\* _validate_structure(data): the message of the ValueError, or NoMsg; the
\* loop raises at the first entry that has a defect.
ValidateStructure(resp) ==
    IF resp.kind = "no_agents_key" THEN <<"LLM response missing 'agents' key.">>
    ELSE IF resp.kind = "agents_not_list" \/ Len(resp.agents) = 0
    THEN <<"'agents' must be a non-empty list.">>
    ELSE LET bad == {i \in DOMAIN resp.agents : resp.agents[i].shape # "ok"}
         IN  IF bad = {} THEN NoMsg
             ELSE LET i == CHOOSE k \in bad : \A m \in bad : k <= m
                  IN  EntryError(resp.agents[i], i)

\* analyze_scenario: the client call, _parse_json, _validate_structure,
\* return parsed["agents"].
AnalyzeScenario(resp) ==
    IF resp.kind = "raise" THEN Raised(<<"analysis request failed">>)
    ELSE IF resp.kind = "text"
         THEN Raised(<<"Failed to parse valid JSON from LLM response">>)
    ELSE IF ValidateStructure(resp) # NoMsg THEN Raised(ValidateStructure(resp))
    ELSE Ok([i \in DOMAIN resp.agents |-> resp.agents[i].config])

\* reason_as_agent: the client call, _parse_json, setdefault x 3 (a key the
\* response carries keeps the response's value), fallback on ValueError; a
\* JSON value that is no object has no setdefault: AttributeError.
ReasonAsAgent(agent, resp) ==
    IF resp = "raise" THEN Raised(<<"reasoning request failed", agent.name>>)
    ELSE IF resp = "list"
    THEN Raised(<<"'list' object has no attribute 'setdefault'">>)
    ELSE IF resp = "object_full"
    THEN Ok([agent |-> "llm-agent", status |-> "llm-status", summary |-> <<"llm">>])
    ELSE IF resp = "object_empty"
    THEN Ok([agent |-> agent.name, status |-> "completed",
             summary |-> <<"default", agent.name>>])
    ELSE Ok([agent |-> agent.name, status |-> "completed",
             summary |-> <<"fallback", agent.name, agent.role,
                           agent.responsibilities>>])

----------------------------------------------------------------------------
(* AgentFactory, AgentRegistry, memory *)

\* Mutant: an agent starts out running.
CreateAgentRunning(config) ==
    [name |-> config.name, role |-> config.role,
     responsibilities |-> config.responsibilities,
     dependencies |-> config.dependencies, status |-> "running"]

\* create_agent(config): BaseAgent.__init__ sets status "pending".
CreateAgent(config) ==
    [name |-> config.name, role |-> config.role,
     responsibilities |-> config.responsibilities,
     dependencies |-> config.dependencies, status |-> "pending"]

\* agent.name in self._agents
Registered(reg, ags, name) == \E i \in Range(reg) : ags[i].name = name

\* Mutant: the new agent is stored under its name before the name is tested.
RegisterAgentOverwrite(reg, ags, i) ==
    IF Registered(reg, ags, ags[i].name)
    THEN [raised |-> TRUE,
          registry |-> [k \in DOMAIN reg |->
                           IF ags[reg[k]].name = ags[i].name THEN i ELSE reg[k]]]
    ELSE [raised |-> FALSE, registry |-> Append(reg, i)]

\* Mutant: the agent is not inserted.
RegisterAgentDrops(reg, ags, i) == [raised |-> FALSE, registry |-> reg]

\* Mutant: no test for the name, the dict entry is assigned.
RegisterAgentNoCheck(reg, ags, i) ==
    IF Registered(reg, ags, ags[i].name)
    THEN [raised |-> FALSE,
          registry |-> [k \in DOMAIN reg |->
                           IF ags[reg[k]].name = ags[i].name THEN i ELSE reg[k]]]
    ELSE [raised |-> FALSE, registry |-> Append(reg, i)]

\* register_agent(ags[i]): raises on a name already present, else inserts at
\* the end of the dict.
RegisterAgent(reg, ags, i) ==
    IF Registered(reg, ags, ags[i].name)
    THEN [raised |-> TRUE, registry |-> reg]
    ELSE [raised |-> FALSE, registry |-> Append(reg, i)]

\* Mutant: a missing name falls back to the agent registered last.
GetAgentFallback(reg, ags, name) ==
    IF Registered(reg, ags, name)
    THEN CHOOSE i \in Range(reg) : ags[i].name = name
    ELSE IF reg = <<>> THEN 0 ELSE reg[Len(reg)]

\* get_agent(name): the index of the agent, 0 for None.
GetAgent(reg, ags, name) ==
    IF Registered(reg, ags, name)
    THEN CHOOSE i \in Range(reg) : ags[i].name = name
    ELSE 0

\* list_agents(): the registered agents in insertion order.
ListAgents(reg, ags) == [k \in DOMAIN reg |-> ags[reg[k]]]

\* The agents of the orchestrator of the earlier request that left `st`.
EarlierAgents(st) ==
    [i \in DOMAIN st |->
        [CreateAgent([name |-> st[i].content[2][1], role |-> "role",
                      responsibilities |-> <<"task">>, dependencies |-> <<>>])
            EXCEPT !.status = "completed"]]

TopK == 3

Min(a, b) == IF a < b THEN a ELSE b

\* Mutant: top_k is ignored, every entry is returned.
RetrieveSimilarAll(st, k) ==
    IF Len(st) = 0 THEN {<<>>}
    ELSE {[i \in DOMAIN st |-> st[f[i]].content] :
             f \in {g \in [DOMAIN st -> DOMAIN st] :
                       \A i, j \in DOMAIN g : g[i] = g[j] => i = j}}

\* retrieve_similar(query, top_k): [] on an empty collection, else the
\* documents of min(top_k, count) different entries in the ranking's order.
RetrieveSimilar(st, k) ==
    IF Len(st) = 0 THEN {<<>>}
    ELSE {[i \in 1..Min(k, Len(st)) |-> st[f[i]].content] :
             f \in {g \in [1..Min(k, Len(st)) -> DOMAIN st] :
                       \A i, j \in DOMAIN g : g[i] = g[j] => i = j}}

\* save_execution_trace + store_execution: one new entry under a fresh id.
StoreExecution(st, scen, order, res) ==
    Append(st, [id |-> Len(st) + 1,
                content |-> <<scen, order,
                              [i \in DOMAIN res |-> <<res[i].agent, res[i].summary>>]>>,
                metadata |-> [scenario |-> scen]])

\* dict[key] = value
DictSet(d, key, value) ==
    [k \in DOMAIN d \cup {key} |-> IF k = key THEN value ELSE d[k]]

\* Mutant: the session keeps the outputs it holds.
InitSessionKeeps(stm) == stm

\* init_session: self.short_term = ShortTermMemory(scenario), whose
\* agent_outputs is {}.
InitSession(stm) == <<>>

\* get_agent_output(name): agent_outputs.get(name), NoResult for None.
GetAgentOutput(stm, name) == IF name \in DOMAIN stm THEN stm[name] ELSE NoResult

\* get_all_outputs(): dict(agent_outputs)
GetAllOutputs(stm) == stm

----------------------------------------------------------------------------
(* The registry called on its own *)

RegistryNames == {"A", "B", "C"}
MaxCalls == 3

\* Agents handed to register_agent: the role tells two agents of one name apart.
RegistryConfigs ==
    [name : RegistryNames, role : {"r1", "r2"}, responsibilities : {<<"task">>},
     dependencies : {<<>>}]

InitRegistry ==
    /\ rpc = "input" /\ rcfg = <<>>
    /\ rres = [ok |-> TRUE, order |-> <<>>, remaining |-> {}]
    /\ store = <<>> /\ store0 = <<>>
    /\ agents = <<>> /\ agents0 = 0 /\ registry = <<>>
    /\ rcall = NoCall /\ ncalls = 0
    /\ IdleSystem

\* registry.register_agent(create_agent(config))
RegisterCall ==
    /\ ncalls < MaxCalls
    /\ \E config \in RegistryConfigs :
          /\ agents' = Append(agents, CreateAgent(config))
          /\ LET r == RegisterAgent(registry, agents', Len(agents'))
             IN  /\ registry' = r.registry
                 /\ rcall' = [op |-> "register", name |-> config.name,
                              raised |-> r.raised, result |-> 0,
                              before |-> registry]
    /\ ncalls' = ncalls + 1
    /\ UNCHANGED <<resolverVars, modelVars, bridgeVars, store, store0, memory_context,
                   short_term, agent_configs, agents0, execution_order, idx,
                   results, context, returned, reasonCalls, saveCalls>>

\* registry.get_agent(name)
GetCall ==
    /\ ncalls < MaxCalls
    /\ \E name \in RegistryNames :
          rcall' = [op |-> "get", name |-> name, raised |-> FALSE,
                    result |-> GetAgent(registry, agents, name),
                    before |-> registry]
    /\ ncalls' = ncalls + 1
    /\ UNCHANGED <<resolverVars, modelVars, bridgeVars, orchVars>>

\* registry.list_agents() and len(registry)
ListCall ==
    /\ ncalls < MaxCalls
    /\ rcall' = [op |-> "list", name |-> "", raised |-> FALSE,
                 result |-> ListAgents(registry, agents),
                 length |-> Len(registry), before |-> registry]
    /\ ncalls' = ncalls + 1
    /\ UNCHANGED <<resolverVars, modelVars, bridgeVars, orchVars>>

NextRegistry == RegisterCall \/ GetCall \/ ListCall

SpecRegistry == InitRegistry /\ [][NextRegistry]_vars

----------------------------------------------------------------------------
(* The memory manager called on its own *)

MemoryNames == {"A", "B"}

\* A result stored for an agent.
OutputOf(name) == [agent |-> name, status |-> "completed", summary |-> <<"llm">>]

\* The trace of a request before the earlier one.
OlderTrace ==
    [id |-> -1, content |-> <<"older", <<"A">>, <<<<"A", <<"default", "A">>>>>>>>,
     metadata |-> [scenario |-> "older"]]

\* The collection as the MemoryManager finds it: up to two earlier traces.
MemoryStores == {<<>>, <<OldTrace>>, <<OlderTrace, OldTrace>>}

InitMemory ==
    /\ rpc = "input" /\ rcfg = <<>>
    /\ rres = [ok |-> TRUE, order |-> <<>>, remaining |-> {}]
    /\ store \in MemoryStores /\ store0 = store
    /\ agents = EarlierAgents(<<OldTrace>>)
    /\ agents0 = Len(agents)
    /\ registry = [i \in DOMAIN agents |-> i]
    /\ rcall = NoCall /\ ncalls = 0
    /\ IdleSystem

\* short_term.store_agent_output(name, output)
StoreOutputCall ==
    /\ ncalls < MaxCalls
    /\ \E name \in MemoryNames :
          /\ short_term' = DictSet(short_term, name, OutputOf(name))
          /\ rcall' = [op |-> "store_agent_output", name |-> name]
    /\ ncalls' = ncalls + 1
    /\ UNCHANGED <<resolverVars, modelVars, bridgeVars, store, store0, memory_context,
                   agent_configs, agents, agents0, registry, execution_order, idx,
                   results, context, returned, reasonCalls, saveCalls>>

\* memory_manager.init_session(scenario)
InitSessionCall ==
    /\ ncalls < MaxCalls
    /\ short_term' = InitSession(short_term)
    /\ rcall' = [op |-> "init_session", before |-> short_term,
                 store |-> store, registry |-> ListAgents(registry, agents)]
    /\ ncalls' = ncalls + 1
    /\ UNCHANGED <<resolverVars, modelVars, bridgeVars, store, store0, memory_context,
                   agent_configs, agents, agents0, registry, execution_order, idx,
                   results, context, returned, reasonCalls, saveCalls>>

\* memory_manager.retrieve_context(scenario)
RetrieveCall ==
    /\ ncalls < MaxCalls
    /\ \E ctx \in RetrieveSimilar(store, TopK) :
          rcall' = [op |-> "retrieve_context", result |-> ctx, store |-> store]
    /\ ncalls' = ncalls + 1
    /\ UNCHANGED <<resolverVars, modelVars, bridgeVars, orchVars>>

\* memory_manager.save_execution_trace(scenario, agents, results)
SaveTraceCall ==
    /\ ncalls < MaxCalls
    /\ store' = StoreExecution(store, "flood", <<"A">>, <<OutputOf("A")>>)
    /\ rcall' = [op |-> "save_execution_trace"]
    /\ ncalls' = ncalls + 1
    /\ UNCHANGED <<resolverVars, modelVars, bridgeVars, store0, memory_context, short_term,
                   agent_configs, agents, agents0, registry, execution_order, idx,
                   results, context, returned, reasonCalls, saveCalls>>

NextMemory == StoreOutputCall \/ InitSessionCall \/ RetrieveCall \/ SaveTraceCall

SpecMemory == InitMemory /\ [][NextMemory]_vars

----------------------------------------------------------------------------
(* The bridge: orchestrate_scenario *)

\* event_callback: schedule push_to_queue on the loop (call_soon_threadsafe).
Emit(event_type, payload) ==
    /\ loopReady' = Append(loopReady, [event_type |-> event_type, payload |-> payload])
    /\ emitted' = Append(emitted, [event |-> event_type, data |-> payload])

\* json.dumps({"event": event_type, "data": payload})
JsonDumps(cb) == [event |-> cb.event_type, data |-> cb.payload]

\* Mutant: the consumer stops on "done" only.
TerminalDoneOnly(msg) == msg.event = "done"

\* json.loads(msg).get("event") in ["done", "error"]
Terminal(msg) == msg.event \in {"done", "error"}

\* raise inside the try block of run_orchestrator
Raise(msg) == exc' = [msg |-> msg, at |-> wpc] /\ wpc' = "except"

\* The server before the request: either it is the first one, or an earlier
\* request has run, whose orchestrator registered and completed its agent
\* and saved its trace.
Init ==
    /\ rpc = "input" /\ rcfg = <<>>
    /\ rres = [ok |-> TRUE, order |-> <<>>, remaining |-> {}]
    /\ rcall = NoCall /\ ncalls = 0
    /\ store \in InitialStores /\ store0 = store
    /\ agents = EarlierAgents(store) /\ agents0 = Len(agents)
    /\ registry = [i \in DOMAIN agents |-> i]
    /\ IdleSystem

\* Mutant: the scenario is not tested, every request starts a worker.
RequestNoCheck ==
    /\ wpc = "idle"
    /\ \E s \in Scenarios :
          /\ scenario' = s
          /\ wpc' = "construct" /\ cpc' = "waiting"
    /\ UNCHANGED <<exc, emitted, loopReady, queue, channel, delivered, orchVars,
                   resolverVars, modelVars, registryVars>>

\* orchestrate_scenario up to the StreamingResponse: 400 on an empty scenario,
\* else the queue, the worker task and the generator.
Request ==
    /\ wpc = "idle"
    /\ \E s \in Scenarios :
          /\ scenario' = s
          /\ IF Strip(s) = ""
             THEN wpc' = "rejected" /\ cpc' = "none"
             ELSE wpc' = "construct" /\ cpc' = "waiting"
    /\ UNCHANGED <<exc, emitted, loopReady, queue, channel, delivered, orchVars,
                   resolverVars, modelVars, registryVars>>

\* Mutant: the loop runs the callback scheduled last.
LoopRunLifo ==
    /\ loopReady # <<>>
    /\ queue' = Append(queue, JsonDumps(loopReady[Len(loopReady)]))
    /\ channel' = Append(channel, JsonDumps(loopReady[Len(loopReady)]))
    /\ loopReady' = SubSeq(loopReady, 1, Len(loopReady) - 1)
    /\ UNCHANGED <<scenario, wpc, exc, emitted, delivered, cpc, orchVars,
                   resolverVars, modelVars, registryVars>>

\* The loop runs the next scheduled push_to_queue.
LoopRun ==
    /\ loopReady # <<>>
    /\ queue' = Append(queue, JsonDumps(Head(loopReady)))
    /\ channel' = Append(channel, JsonDumps(Head(loopReady)))
    /\ loopReady' = Tail(loopReady)
    /\ UNCHANGED <<scenario, wpc, exc, emitted, delivered, cpc, orchVars,
                   resolverVars, modelVars, registryVars>>

\* event_generator: one turn of the while loop.
ConsumerGet ==
    /\ cpc = "waiting"
    /\ queue # <<>>
    /\ delivered' = Append(delivered, Head(queue))
    /\ queue' = Tail(queue)
    /\ cpc' = IF Terminal(Head(queue)) THEN "stopped" ELSE "waiting"
    /\ UNCHANGED <<scenario, wpc, exc, emitted, loopReady, channel, orchVars,
                   resolverVars, modelVars, registryVars>>

----------------------------------------------------------------------------
(* The worker thread: run_orchestrator and MetaOrchestrator.execute *)

\* What no step of the worker touches.
consumerSide == <<scenario, queue, channel, delivered, cpc, resolverVars, modelVars,
                  registryVars>>

\* Mutant: the orchestrator keeps the registry of the earlier request.
ConstructKeepsRegistry ==
    /\ wpc = "construct"
    /\ \/ /\ wpc' = "emit_init"
          /\ short_term' = <<>>
          /\ UNCHANGED <<exc, registry>>
       \/ /\ Raise(<<"API key not found. Set GROQ_API_KEY in your .env file.">>)
          /\ UNCHANGED <<registry, short_term>>
    /\ \E m \in SelectedModels : LLM_MODEL' = m
    /\ UNCHANGED <<emitted, loopReady, store, store0, agents0, memory_context,
                   agent_configs, agents, execution_order, idx, results, context,
                   returned, reasonCalls, saveCalls, scenario, queue, channel,
                   delivered, cpc, resolverVars, registryVars, runs>>

\* Config.LLM_MODEL = model; MetaOrchestrator(): LLMService, AgentRegistry,
\* DependencyResolver, MemoryManager; a constructor may raise.
Construct ==
    /\ wpc = "construct"
    /\ \/ /\ wpc' = "emit_init"
          /\ registry' = <<>> /\ short_term' = <<>>
          /\ UNCHANGED exc
       \/ /\ Raise(<<"API key not found. Set GROQ_API_KEY in your .env file.">>)
          /\ UNCHANGED <<registry, short_term>>
    /\ \E m \in SelectedModels : LLM_MODEL' = m
    /\ UNCHANGED <<emitted, loopReady, store, store0, agents0, memory_context, agent_configs, agents,
                   execution_order, idx, results, context, returned,
                   reasonCalls, saveCalls, scenario, queue, channel,
                   delivered, cpc, resolverVars, registryVars, runs>>

\* event_callback("status", {"step": "Initializing pipeline..."})
EmitInitializing ==
    /\ wpc = "emit_init"
    /\ Emit("status", [step |-> "Initializing pipeline..."])
    /\ wpc' = "emit_retrieving"
    /\ UNCHANGED <<exc, orchVars, consumerSide>>

\* event_callback("status", {"step": "Retrieving memory context..."})
EmitRetrieving ==
    /\ wpc = "emit_retrieving"
    /\ Emit("status", [step |-> "Retrieving memory context..."])
    /\ wpc' = "retrieve"
    /\ UNCHANGED <<exc, orchVars, consumerSide>>

\* memory_manager.retrieve_context(scenario_text); init_session(scenario_text)
RetrieveContext ==
    /\ wpc = "retrieve"
    /\ \/ /\ \E ctx \in RetrieveSimilar(store, TopK) : memory_context' = ctx
          /\ short_term' = InitSession(short_term)
          /\ wpc' = "emit_memory"
          /\ UNCHANGED exc
       \/ /\ Raise(<<"vector store query failed">>)
          /\ UNCHANGED <<memory_context, short_term>>
    /\ UNCHANGED <<emitted, loopReady, store, store0, agents0, agent_configs, agents, registry,
                   execution_order, idx, results, context, returned,
                   reasonCalls, saveCalls, consumerSide>>

\* event_callback("memory_retrieved", {"context": memory_context})
EmitMemoryRetrieved ==
    /\ wpc = "emit_memory"
    /\ Emit("memory_retrieved", [context |-> memory_context])
    /\ wpc' = "emit_analyzing"
    /\ UNCHANGED <<exc, orchVars, consumerSide>>

\* event_callback("status", {"step": "Analyzing scenario with LLM..."})
EmitAnalyzing ==
    /\ wpc = "emit_analyzing"
    /\ Emit("status", [step |-> "Analyzing scenario with LLM..."])
    /\ wpc' = "analyze"
    /\ UNCHANGED <<exc, orchVars, consumerSide>>

\* agent_configs = self.llm_service.analyze_scenario(scenario_text)
Analyze ==
    /\ wpc = "analyze"
    /\ \E resp \in AnalysisResponses :
          LET r == AnalyzeScenario(resp)
          IN  IF r.raised
              THEN Raise(r.msg) /\ UNCHANGED agent_configs
              ELSE /\ agent_configs' = r.value
                   /\ wpc' = "emit_designed"
                   /\ UNCHANGED exc
    /\ UNCHANGED <<emitted, loopReady, store, store0, agents0, memory_context, short_term, agents, registry,
                   execution_order, idx, results, context, returned,
                   reasonCalls, saveCalls, consumerSide>>

\* event_callback("agents_designed", {"agents": agent_configs})
EmitAgentsDesigned ==
    /\ wpc = "emit_designed"
    /\ Emit("agents_designed", [agents |-> agent_configs])
    /\ wpc' = "emit_creating"
    /\ UNCHANGED <<exc, orchVars, consumerSide>>

\* event_callback("status", {"step": "Creating agents..."})
EmitCreating ==
    /\ wpc = "emit_creating"
    /\ Emit("status", [step |-> "Creating agents..."])
    /\ wpc' = "register" /\ idx' = 1
    /\ UNCHANGED <<exc, store, store0, agents0, memory_context, short_term, agent_configs, agents,
                   registry, execution_order, results, context, returned,
                   reasonCalls, saveCalls, consumerSide>>

\* One turn of: for config in agent_configs: agent = create_agent(config);
\* self.registry.register_agent(agent)
RegisterNext ==
    /\ wpc = "register"
    /\ idx <= Len(agent_configs)
    /\ agents' = Append(agents, CreateAgent(agent_configs[idx]))
    /\ LET r == RegisterAgent(registry, agents', Len(agents'))
       IN  /\ registry' = r.registry
           /\ IF r.raised
              THEN /\ Raise(<<"Agent is already registered.", agent_configs[idx].name>>)
                   /\ UNCHANGED idx
              ELSE /\ idx' = idx + 1
                   /\ UNCHANGED <<wpc, exc>>
    /\ UNCHANGED <<emitted, loopReady, store, store0, agents0, memory_context, short_term, agent_configs,
                   execution_order, results, context, returned,
                   reasonCalls, saveCalls, consumerSide>>

\* event_callback("status", {"step": "Resolving dependencies..."})
EmitResolving ==
    /\ wpc = "register"
    /\ idx > Len(agent_configs)
    /\ Emit("status", [step |-> "Resolving dependencies..."])
    /\ wpc' = "resolve"
    /\ UNCHANGED <<exc, orchVars, consumerSide>>

\* execution_order = self.dependency_resolver.resolve(agent_configs)
ResolveOrder ==
    /\ wpc = "resolve"
    /\ \E setOrder \in Perms(AllAgents(agent_configs)) :
          LET r == Resolve(agent_configs, setOrder)
          IN  IF r.ok
              THEN /\ execution_order' = r.order
                   /\ wpc' = "emit_resolved"
                   /\ UNCHANGED exc
              ELSE /\ Raise(<<"Circular dependency detected among agents", r.remaining>>)
                   /\ UNCHANGED execution_order
    /\ UNCHANGED <<emitted, loopReady, store, store0, agents0, memory_context, short_term, agent_configs,
                   agents, registry, idx, results, context, returned,
                   reasonCalls, saveCalls, consumerSide>>

\* A str as a value of the context dict, whose other values are dicts.
Str(s) == [str |-> s]

\* event_callback("dependency_resolved", {"order": execution_order});
\* results = []; context = {"scenario": scenario_text}
EmitResolved ==
    /\ wpc = "emit_resolved"
    /\ Emit("dependency_resolved", [order |-> execution_order])
    /\ results' = <<>>
    /\ context' = [k \in {"scenario"} |-> Str(scenario)]
    /\ idx' = 1
    /\ wpc' = "loop"
    /\ UNCHANGED <<exc, store, store0, agents0, memory_context, short_term, agent_configs, agents,
                   registry, execution_order, returned, reasonCalls, saveCalls,
                   consumerSide>>

\* Loop head: agent = self.registry.get_agent(agent_name); None is skipped,
\* else event_callback("agent_executing", {"agent": agent_name})
LoopHead ==
    /\ wpc = "loop"
    /\ idx <= Len(execution_order)
    /\ IF GetAgent(registry, agents, execution_order[idx]) = 0
       THEN /\ idx' = idx + 1
            /\ UNCHANGED <<wpc, emitted, loopReady>>
       ELSE /\ Emit("agent_executing", [agent |-> execution_order[idx]])
            /\ wpc' = "execute"
            /\ UNCHANGED idx
    /\ UNCHANGED <<exc, store, store0, agents0, memory_context, short_term, agent_configs, agents,
                   registry, execution_order, results, context, returned,
                   reasonCalls, saveCalls, consumerSide>>

\* Mutant: execute does not mark the agent running.
ExecuteBeginNoStatus ==
    /\ wpc = "execute"
    /\ wpc' = "reason"
    /\ UNCHANGED <<exc, emitted, loopReady, orchVars, consumerSide>>

\* BaseAgent.execute up to the reasoning call: self.status = "running"
ExecuteBegin ==
    /\ wpc = "execute"
    /\ agents' = [agents EXCEPT
           ![GetAgent(registry, agents, execution_order[idx])].status = "running"]
    /\ wpc' = "reason"
    /\ UNCHANGED <<exc, emitted, loopReady, store, store0, agents0, memory_context, short_term, agent_configs,
                   registry, execution_order, idx, results, context, returned,
                   reasonCalls, saveCalls, consumerSide>>

\* Mutant: execute returns without marking the agent completed.
ReasonLeavesRunning ==
    /\ wpc = "reason"
    /\ reasonCalls' = Append(reasonCalls, execution_order[idx])
    /\ \E resp \in ReasonResponses :
          LET i == GetAgent(registry, agents, execution_order[idx])
              r == ReasonAsAgent(agents[i], resp)
          IN  IF r.raised
              THEN Raise(r.msg) /\ UNCHANGED results
              ELSE /\ results' = Append(results, r.value)
                   /\ wpc' = "emit_completed"
                   /\ UNCHANGED exc
    /\ UNCHANGED <<emitted, loopReady, store, store0, agents0, memory_context,
                   short_term, agent_configs, agents, registry, execution_order,
                   idx, context, returned, saveCalls, consumerSide>>

\* Mutant: an exception of the reasoning call marks the agent failed.
ReasonMarksFailed ==
    /\ wpc = "reason"
    /\ reasonCalls' = Append(reasonCalls, execution_order[idx])
    /\ \E resp \in ReasonResponses :
          LET i == GetAgent(registry, agents, execution_order[idx])
              r == ReasonAsAgent(agents[i], resp)
          IN  IF r.raised
              THEN /\ Raise(r.msg)
                   /\ agents' = [agents EXCEPT ![i].status = "failed"]
                   /\ UNCHANGED results
              ELSE /\ agents' = [agents EXCEPT ![i].status = "completed"]
                   /\ results' = Append(results, r.value)
                   /\ wpc' = "emit_completed"
                   /\ UNCHANGED exc
    /\ UNCHANGED <<emitted, loopReady, store, store0, agents0, memory_context,
                   short_term, agent_configs, registry, execution_order, idx,
                   context, returned, saveCalls, consumerSide>>

\* LLMService().reason_as_agent(...) returns or raises; on return
\* self.status = "completed" and results.append(result)
Reason ==
    /\ wpc = "reason"
    /\ reasonCalls' = Append(reasonCalls, execution_order[idx])
    /\ \E resp \in ReasonResponses :
          LET i == GetAgent(registry, agents, execution_order[idx])
              r == ReasonAsAgent(agents[i], resp)
          IN  IF r.raised
              THEN Raise(r.msg) /\ UNCHANGED <<agents, results>>
              ELSE /\ agents' = [agents EXCEPT ![i].status = "completed"]
                   /\ results' = Append(results, r.value)
                   /\ wpc' = "emit_completed"
                   /\ UNCHANGED exc
    /\ UNCHANGED <<emitted, loopReady, store, store0, agents0, memory_context, short_term, agent_configs,
                   registry, execution_order, idx, context, returned, saveCalls,
                   consumerSide>>

\* Mutant: the result is not merged into the shared context.
EmitAgentCompletedNoContext ==
    /\ wpc = "emit_completed"
    /\ Emit("agent_completed", [result |-> results[Len(results)]])
    /\ short_term' = DictSet(short_term, execution_order[idx], results[Len(results)])
    /\ idx' = idx + 1
    /\ wpc' = "loop"
    /\ UNCHANGED <<exc, store, store0, agents0, memory_context, agent_configs, agents,
                   registry, execution_order, results, context, returned,
                   reasonCalls, saveCalls, consumerSide>>

\* Mutant: the completion of an agent is not reported.
EmitAgentCompletedSilent ==
    /\ wpc = "emit_completed"
    /\ short_term' = DictSet(short_term, execution_order[idx], results[Len(results)])
    /\ context' = DictSet(context, execution_order[idx], results[Len(results)])
    /\ idx' = idx + 1
    /\ wpc' = "loop"
    /\ UNCHANGED <<exc, emitted, loopReady, store, store0, agents0, memory_context, agent_configs,
                   agents, registry, execution_order, results, returned,
                   reasonCalls, saveCalls, consumerSide>>

\* event_callback("agent_completed", {"result": result});
\* short_term.store_agent_output(agent_name, result); context[agent_name] = result
EmitAgentCompleted ==
    /\ wpc = "emit_completed"
    /\ Emit("agent_completed", [result |-> results[Len(results)]])
    /\ short_term' = DictSet(short_term, execution_order[idx], results[Len(results)])
    /\ context' = DictSet(context, execution_order[idx], results[Len(results)])
    /\ idx' = idx + 1
    /\ wpc' = "loop"
    /\ UNCHANGED <<exc, store, store0, agents0, memory_context, agent_configs, agents, registry,
                   execution_order, results, returned, reasonCalls, saveCalls,
                   consumerSide>>

\* After the loop: event_callback("status", {"step": "Saving execution trace..."})
EmitSaving ==
    /\ wpc = "loop"
    /\ idx > Len(execution_order)
    /\ Emit("status", [step |-> "Saving execution trace..."])
    /\ wpc' = "save"
    /\ UNCHANGED <<exc, orchVars, consumerSide>>

\* Mutant: the trace is written over what the collection held.
SaveTraceOverwrite ==
    /\ wpc = "save"
    /\ saveCalls' = saveCalls + 1
    /\ \/ /\ store' = StoreExecution(<<>>, scenario, execution_order, results)
          /\ wpc' = "emit_orchestrated"
          /\ UNCHANGED exc
       \/ /\ Raise(<<"embedding failed">>)
          /\ UNCHANGED store
    /\ UNCHANGED <<emitted, loopReady, store0, agents0, memory_context, short_term,
                   agent_configs, agents, registry, execution_order, idx, results,
                   context, returned, reasonCalls, consumerSide>>

\* self.memory_manager.save_execution_trace(scenario, execution_order, results)
SaveTrace ==
    /\ wpc = "save"
    /\ saveCalls' = saveCalls + 1
    /\ \/ /\ store' = StoreExecution(store, scenario, execution_order, results)
          /\ wpc' = "emit_orchestrated"
          /\ UNCHANGED exc
       \/ /\ Raise(<<"embedding failed">>)
          /\ UNCHANGED store
    /\ UNCHANGED <<emitted, loopReady, store0, agents0, memory_context, short_term, agent_configs,
                   agents, registry, execution_order, idx, results, context,
                   returned, reasonCalls, consumerSide>>

\* Mutant: the aggregate reads the memory context again, after the save.
ResponseRereads ==
    [scenario |-> scenario, agents_created |-> Len(agent_configs),
     execution_order |-> execution_order,
     memory_context_used |->
         [i \in 1..Min(TopK, Len(store)) |-> store[Len(store) + 1 - i].content],
     results |-> results]

\* Mutant: the aggregate lists the agents in the order of the analysis.
ResponseInputOrder ==
    [scenario |-> scenario, agents_created |-> Len(agent_configs),
     execution_order |-> [i \in DOMAIN agent_configs |-> agent_configs[i].name],
     memory_context_used |-> memory_context, results |-> results]

\* The aggregate built at step 7.
Response ==
    [scenario |-> scenario, agents_created |-> Len(agent_configs),
     execution_order |-> execution_order,
     memory_context_used |-> memory_context, results |-> results]

\* event_callback("orchestration_completed", response); return response
EmitOrchestrationCompleted ==
    /\ wpc = "emit_orchestrated"
    /\ Emit("orchestration_completed", Response)
    /\ returned' = Response
    /\ wpc' = "finally"
    /\ UNCHANGED <<exc, store, store0, agents0, memory_context, short_term, agent_configs, agents,
                   registry, execution_order, idx, results, context,
                   reasonCalls, saveCalls, consumerSide>>

\* Mutant: the handler persists what the run produced so far.
ExceptSavesTrace ==
    /\ wpc = "except"
    /\ Emit("error", [message |-> exc.msg])
    /\ store' = StoreExecution(store, scenario, execution_order, results)
    /\ saveCalls' = saveCalls + 1
    /\ wpc' = "finally"
    /\ UNCHANGED <<exc, store0, agents0, memory_context, short_term, agent_configs, agents,
                   registry, execution_order, idx, results, context, returned,
                   reasonCalls, consumerSide>>

\* Mutant: the handler only logs.
ExceptSilent ==
    /\ wpc = "except"
    /\ wpc' = "finally"
    /\ UNCHANGED <<exc, emitted, loopReady, orchVars, consumerSide>>

\* except Exception as e: event_callback("error", {"message": str(e)})
Except ==
    /\ wpc = "except"
    /\ Emit("error", [message |-> exc.msg])
    /\ wpc' = "finally"
    /\ UNCHANGED <<exc, orchVars, consumerSide>>

\* Mutant: no finally clause.
FinallyNoDone ==
    /\ wpc = "finally"
    /\ wpc' = "worker_done"
    /\ UNCHANGED <<exc, emitted, loopReady, orchVars, consumerSide>>

\* finally: event_callback("done", {})
Finally ==
    /\ wpc = "finally"
    /\ Emit("done", <<>>)
    /\ wpc' = "worker_done"
    /\ UNCHANGED <<exc, orchVars, consumerSide>>

Worker ==
    \/ Construct \/ EmitInitializing \/ EmitRetrieving \/ RetrieveContext
    \/ EmitMemoryRetrieved \/ EmitAnalyzing \/ Analyze \/ EmitAgentsDesigned
    \/ EmitCreating \/ RegisterNext \/ EmitResolving \/ ResolveOrder
    \/ EmitResolved \/ LoopHead \/ ExecuteBegin \/ Reason \/ EmitAgentCompleted
    \/ EmitSaving \/ SaveTrace \/ EmitOrchestrationCompleted \/ Except \/ Finally

Next == Request \/ Worker \/ LoopRun \/ ConsumerGet

Spec == Init /\ [][Next]_vars

\* A request arriving when the store holds an earlier trace.
InitFair == Init /\ store = <<OldTrace>>

\* The same request with the worker thread and the event loop (which runs the
\* scheduled callbacks and the generator) scheduled fairly.
FairSpec ==
    /\ InitFair /\ [][Next]_vars
    /\ WF_vars(Worker) /\ WF_vars(LoopRun) /\ WF_vars(ConsumerGet)

----------------------------------------------------------------------------
(* Concurrent requests and Config.LLM_MODEL *)
MaxRuns == 2

InitModels ==
    /\ rpc = "input" /\ rcfg = <<>>
    /\ rres = [ok |-> TRUE, order |-> <<>>, remaining |-> {}]
    /\ store = <<>> /\ store0 = <<>>
    /\ agents = <<>> /\ agents0 = 0 /\ registry = <<>>
    /\ rcall = NoCall /\ ncalls = 0
    /\ IdleSystem

\* orchestrate_scenario: a request with a model selector starts its worker
\* thread with asyncio.to_thread(run_orchestrator).
RequestModel ==
    /\ Len(runs) < MaxRuns
    /\ \E m \in Models :
          runs' = Append(runs, [model |-> m, pc |-> "set_model", left |-> 0,
                                clients |-> <<>>])
    /\ UNCHANGED <<LLM_MODEL, resolverVars, registryVars, bridgeVars, orchVars>>

\* self.model = Config.LLM_MODEL in LLMService.__init__
NewClient(w) == Append(runs[w].clients, LLM_MODEL)

\* Config.LLM_MODEL = model
SetModel(w) ==
    /\ runs[w].pc = "set_model"
    /\ LLM_MODEL' = runs[w].model
    /\ runs' = [runs EXCEPT ![w].pc = "construct"]
    /\ UNCHANGED <<resolverVars, registryVars, bridgeVars, orchVars>>

\* orchestrator = MetaOrchestrator(): self.llm_service = LLMService()
ConstructRun(w) ==
    /\ runs[w].pc = "construct"
    /\ runs' = [runs EXCEPT ![w].pc = "analyze", ![w].clients = NewClient(w)]
    /\ UNCHANGED <<LLM_MODEL, resolverVars, registryVars, bridgeVars, orchVars>>

\* analyze_scenario returns the agents of the run (a non-empty list).
AnalyzeRun(w) ==
    /\ runs[w].pc = "analyze"
    /\ \E n \in 1..MaxAgents :
          runs' = [runs EXCEPT ![w].pc = "execute", ![w].left = n]
    /\ UNCHANGED <<LLM_MODEL, resolverVars, registryVars, bridgeVars, orchVars>>

\* BaseAgent.execute of the next agent: llm_service = LLMService()
AgentExecute(w) ==
    /\ runs[w].pc = "execute"
    /\ runs' = [runs EXCEPT ![w].clients = NewClient(w),
                            ![w].left = @ - 1,
                            ![w].pc = IF runs[w].left = 1 THEN "done" ELSE @]
    /\ UNCHANGED <<LLM_MODEL, resolverVars, registryVars, bridgeVars, orchVars>>

NextModels ==
    \/ RequestModel
    \/ \E w \in DOMAIN runs : SetModel(w)
    \/ \E w \in DOMAIN runs : ConstructRun(w)
    \/ \E w \in DOMAIN runs : AnalyzeRun(w)
    \/ \E w \in DOMAIN runs : AgentExecute(w)

SpecModels == InitModels /\ [][NextModels]_vars

----------------------------------------------------------------------------
(* Two concurrent requests, each with its own queue and orchestrator *)

\* The scenario texts of the two requests.
RunScenarios == <<"flood", "fire">>

\* What analyze_scenario may return to a run: agents with different names
\* and no dependencies.
RunConfigs ==
    {c \in SeqsUpTo(PipelineConfigs, MaxAgents) :
        /\ c # <<>>
        /\ \A i, j \in DOMAIN c : c[i].name = c[j].name => i = j
        /\ \A i \in DOMAIN c : c[i].dependencies = <<>>}

\* The worker thread of a request right after asyncio.to_thread started it:
\* queue = asyncio.Queue() is a local of orchestrate_scenario.
NewRun(scen) ==
    [scenario |-> scen, pc |-> "construct", agent_configs |-> <<>>,
     registry |-> <<>>, execution_order |-> <<>>, idx |-> 0,
     short_term |-> <<>>, memory_context |-> <<>>, results |-> <<>>,
     emitted |-> <<>>, queue |-> <<>>, delivered |-> <<>>]

InitIsolation ==
    /\ rpc = "input" /\ rcfg = <<>>
    /\ rres = [ok |-> TRUE, order |-> <<>>, remaining |-> {}]
    /\ rcall = NoCall /\ ncalls = 0
    /\ scenario = "" /\ wpc = "idle" /\ exc = NoExc
    /\ emitted = <<>> /\ loopReady = <<>> /\ queue = <<>> /\ channel = <<>>
    /\ delivered = <<>> /\ cpc = "none"
    /\ memory_context = <<>> /\ short_term = <<>> /\ agent_configs = <<>>
    /\ execution_order = <<>> /\ idx = 0
    /\ results = <<>> /\ context = <<>> /\ returned = NoResult
    /\ reasonCalls = <<>> /\ saveCalls = 0
    /\ agents = <<>> /\ agents0 = 0 /\ registry = <<>>
    /\ store \in InitialStores /\ store0 = store
    /\ LLM_MODEL = DefaultModel
    /\ runs = [w \in DOMAIN RunScenarios |-> NewRun(RunScenarios[w])]

\* Mutant: the queue is one module-level object, the first request's.
QueueOfShared(w) == 1

\* The queue push_to_queue of request w puts on: the one its closure holds.
QueueOf(w) == w

\* event_callback(event_type, payload) of request w
Put(rs, w, event, data) ==
    LET ev == [event |-> event, data |-> data]
        r1 == [rs EXCEPT ![w].emitted = Append(@, ev)]
    IN  [r1 EXCEPT ![QueueOf(w)].queue = Append(@, ev)]

isoFrame == <<LLM_MODEL, resolverVars, registryVars, bridgeVars, store0,
              memory_context, short_term, agent_configs, agents, agents0,
              registry, execution_order, idx, results, context, returned,
              reasonCalls, saveCalls>>

\* orchestrator = MetaOrchestrator(): a new AgentRegistry and MemoryManager
ConstructIso(w) ==
    /\ runs[w].pc = "construct"
    /\ runs' = [runs EXCEPT ![w].pc = "retrieve", ![w].registry = <<>>,
                            ![w].short_term = <<>>]
    /\ UNCHANGED <<store, isoFrame>>

\* stage 1: retrieve_context, init_session
RetrieveIso(w) ==
    /\ runs[w].pc = "retrieve"
    /\ \E ctx \in RetrieveSimilar(store, TopK) :
          runs' = [runs EXCEPT ![w].pc = "analyze", ![w].memory_context = ctx,
                                  ![w].short_term = InitSession(@)]
    /\ UNCHANGED <<store, isoFrame>>

\* stage 2: analyze_scenario and the agents_designed event
AnalyzeIso(w) ==
    /\ runs[w].pc = "analyze"
    /\ \E c \in RunConfigs :
          runs' = [Put(runs, w, "agents_designed", [agents |-> c])
                      EXCEPT ![w].pc = "register", ![w].agent_configs = c]
    /\ UNCHANGED <<store, isoFrame>>

\* stage 3: create_agent and register_agent for every config
RegisterIso(w) ==
    /\ runs[w].pc = "register"
    /\ runs' = [runs EXCEPT
           ![w].pc = "resolve",
           ![w].registry = @ \o [i \in DOMAIN runs[w].agent_configs |->
                                    CreateAgent(runs[w].agent_configs[i])]]
    /\ UNCHANGED <<store, isoFrame>>

\* stage 4: resolve
ResolveIso(w) ==
    /\ runs[w].pc = "resolve"
    /\ \E setOrder \in Perms(AllAgents(runs[w].agent_configs)) :
          runs' = [runs EXCEPT
              ![w].pc = "execute", ![w].idx = 1,
              ![w].execution_order = Resolve(runs[w].agent_configs, setOrder).order]
    /\ UNCHANGED <<store, isoFrame>>

\* The result of the agent `name` reasoning about the scenario `scen`.
RunResult(name, scen) ==
    [agent |-> name, status |-> "completed", summary |-> <<"llm", scen>>]

\* stage 5, one agent: execute, agent_completed, store_agent_output
ExecuteIso(w) ==
    /\ runs[w].pc = "execute"
    /\ runs[w].idx <= Len(runs[w].execution_order)
    /\ LET name == runs[w].execution_order[runs[w].idx]
           res == RunResult(name, runs[w].scenario)
       IN  runs' = [Put(runs, w, "agent_completed", [result |-> res]) EXCEPT
               ![w].registry = [k \in DOMAIN @ |->
                   IF @[k].name = name THEN [@[k] EXCEPT !.status = "completed"]
                   ELSE @[k]],
               ![w].results = Append(@, res),
               ![w].short_term = DictSet(@, name, res),
               ![w].idx = @ + 1]
    /\ UNCHANGED <<store, isoFrame>>

\* stage 6: save_execution_trace
SaveIso(w) ==
    /\ runs[w].pc = "execute"
    /\ runs[w].idx > Len(runs[w].execution_order)
    /\ store' = StoreExecution(store, runs[w].scenario, runs[w].execution_order,
                               runs[w].results)
    /\ runs' = [runs EXCEPT ![w].pc = "finally"]
    /\ UNCHANGED isoFrame

\* finally: event_callback("done", {})
FinallyIso(w) ==
    /\ runs[w].pc = "finally"
    /\ runs' = [Put(runs, w, "done", <<>>) EXCEPT ![w].pc = "worker_done"]
    /\ UNCHANGED <<store, isoFrame>>

\* event_generator of request w: msg = await queue.get(); yield; break on done
DeliverIso(w) ==
    /\ runs[w].queue # <<>>
    /\ \A i \in DOMAIN runs[w].delivered : ~Terminal(runs[w].delivered[i])
    /\ runs' = [runs EXCEPT ![w].delivered = Append(@, Head(runs[w].queue)),
                            ![w].queue = Tail(@)]
    /\ UNCHANGED <<store, isoFrame>>

NextIsolation ==
    \/ \E w \in DOMAIN runs : ConstructIso(w)
    \/ \E w \in DOMAIN runs : RetrieveIso(w)
    \/ \E w \in DOMAIN runs : AnalyzeIso(w)
    \/ \E w \in DOMAIN runs : RegisterIso(w)
    \/ \E w \in DOMAIN runs : ResolveIso(w)
    \/ \E w \in DOMAIN runs : ExecuteIso(w)
    \/ \E w \in DOMAIN runs : SaveIso(w)
    \/ \E w \in DOMAIN runs : FinallyIso(w)
    \/ \E w \in DOMAIN runs : DeliverIso(w)

SpecIsolation == InitIsolation /\ [][NextIsolation]_vars

----------------------------------------------------------------------------
(* What the resolver claims speak about, defined without the algorithm *)

DistinctNames(cfgs) ==
    \A i, j \in DOMAIN cfgs : cfgs[i].name = cfgs[j].name => i = j

\* <<n, d>>: n declares the dependency d, and d is a name of the input.
DependsOn(cfgs) ==
    {e \in AllAgents(cfgs) \X AllAgents(cfgs) :
        \E i \in DOMAIN cfgs :
            cfgs[i].name = e[1] /\ e[2] \in Range(cfgs[i].dependencies)}

\* Transitive closure of a relation on the names of cfgs.
RECURSIVE Closure(_, _)
Closure(R, k) ==
    IF k = 0 THEN R
    ELSE LET C == Closure(R, k - 1)
         IN  C \cup {<<e[1], f[2]>> : <<e, f>> \in {ef \in C \X R : ef[1][2] = ef[2][1]}}

DependsOnPlus(cfgs) == Closure(DependsOn(cfgs), Cardinality(AllAgents(cfgs)))

\* No name depends on itself through names of the input.
Acyclic(cfgs) == \A n \in AllAgents(cfgs) : <<n, n>> \notin DependsOnPlus(cfgs)

\* The names on a cycle, and the names that depend on one of those.
Unplaceable(cfgs) ==
    {n \in AllAgents(cfgs) :
        \E m \in AllAgents(cfgs) :
            /\ <<m, m>> \in DependsOnPlus(cfgs)
            /\ (n = m \/ <<n, m>> \in DependsOnPlus(cfgs))}

\* Position of a name in an order (0 when absent).
PosIn(order, n) ==
    IF n \in Range(order) THEN CHOOSE i \in DOMAIN order : order[i] = n ELSE 0

\* Every name once, each after the in-set dependencies it declares.
ValidOrder(cfgs, order) ==
    /\ Range(order) = AllAgents(cfgs)
    /\ Len(order) = Cardinality(AllAgents(cfgs))
    /\ \A e \in DependsOn(cfgs) : PosIn(order, e[2]) < PosIn(order, e[1])

\* The input with every dependency on a name outside the input removed.
WithoutDangling(cfgs) ==
    [i \in DOMAIN cfgs |->
        [cfgs[i] EXCEPT !.dependencies =
            SelectSeq(cfgs[i].dependencies, LAMBDA d : d \in AllAgents(cfgs))]]

HasDangling(cfgs) ==
    \E i \in DOMAIN cfgs :
        \E d \in Range(cfgs[i].dependencies) : d \notin AllAgents(cfgs)

\* Everything resolve may return or raise for an input.
Outcomes(cfgs) == {Resolve(cfgs, p) : p \in Perms(AllAgents(cfgs))}

\* C7: for pairwise distinct names and an acyclic in-set dependency relation
\* (the empty list included) resolve raises nothing and returns every input
\* name exactly once, each after all its dependencies that are input names;
\* the empty list gives the empty order.
C7_ResolveValidOrder ==
    (rpc = "done" /\ DistinctNames(rcfg) /\ Acyclic(rcfg)) =>
        /\ rres.ok
        /\ ValidOrder(rcfg, rres.order)
        /\ Len(rres.order) = Len(rcfg)
        /\ (rcfg = <<>> => rres.order = <<>>)

C7_Witness ==
    /\ rpc = "done"
    /\ rcfg = <<[name |-> "B", dependencies |-> <<"A", "C">>],
                [name |-> "A", dependencies |-> <<>>]>>
    /\ rres.ok /\ rres.order = <<"A", "B">>

\* C8: when the dependency relation restricted to the input names has a cycle,
\* resolve returns no order and raises; the names in the error are exactly the
\* names Kahn's procedure cannot place (those on a cycle or depending on one);
\* for A -> B, B -> A they are {A, B}.
C8_CycleRaises ==
    (rpc = "done" /\ ~Acyclic(rcfg)) =>
        /\ ~rres.ok
        /\ rres.order = <<>>
        /\ rres.remaining = Unplaceable(rcfg)
        /\ (rcfg = <<[name |-> "A", dependencies |-> <<"B">>],
                     [name |-> "B", dependencies |-> <<"A">>]>>
               => rres.remaining = {"A", "B"})

C8_Witness ==
    /\ rpc = "done"
    /\ rcfg = <<[name |-> "A", dependencies |-> <<"B">>],
                [name |-> "B", dependencies |-> <<"A">>]>>
    /\ ~rres.ok /\ rres.remaining = {"A", "B"}

\* C10: a dependency on a name outside the input adds no in-degree and raises
\* nothing: resolve has the same outcomes as on the input with the dangling
\* dependencies removed, and an input whose in-set relation is acyclic resolves.
C10_DanglingInert ==
    rpc = "done" =>
        /\ rres \in Outcomes(WithoutDangling(rcfg))
        /\ Outcomes(WithoutDangling(rcfg)) \subseteq Outcomes(rcfg)
        /\ (HasDangling(rcfg) /\ Acyclic(rcfg) =>
               rres.ok /\ ValidOrder(rcfg, rres.order))

C10_Witness ==
    /\ rpc = "done"
    /\ rcfg = <<[name |-> "A", dependencies |-> <<"C">>],
                [name |-> "B", dependencies |-> <<"A", "C">>]>>
    /\ rres.ok /\ rres.order = <<"A", "B">>

\* The names of the input in the order of their first appearance.
RECURSIVE FirstAppearance(_)
FirstAppearance(cfgs) ==
    IF cfgs = <<>> THEN <<>>
    ELSE LET front == FirstAppearance(SubSeq(cfgs, 1, Len(cfgs) - 1))
             last == cfgs[Len(cfgs)].name
         IN  IF last \in Range(front) THEN front ELSE Append(front, last)

\* C26: resolve is deterministic with original-appearance-order tie-breaking:
\* the ready queue starts with the in-degree-0 names in input order, so the
\* result is the one Kahn's procedure gives from that queue, whatever the call.
C26_InputOrderTieBreak ==
    rpc = "done" => rres = Resolve(rcfg, FirstAppearance(rcfg))

\* The names that depend on themselves through names of the input.
OnCycle(cfgs) == {n \in AllAgents(cfgs) : <<n, n>> \in DependsOnPlus(cfgs)}

\* C27 as stated: whenever resolve fails, every name carried by the error
\* lies on a dependency cycle among the input names.
C27_ReportedOnCycle ==
    (rpc = "done" /\ ~rres.ok) => rres.remaining \subseteq OnCycle(rcfg)

\* C27, amended: whenever resolve fails, every name carried by the error lies
\* on a dependency cycle or depends, directly or transitively, on a name that
\* does; every name on a cycle is reported, and at least one is.
C27_ReportedReachCycle ==
    (rpc = "done" /\ ~rres.ok) =>
        /\ \A n \in rres.remaining :
              \/ n \in OnCycle(rcfg)
              \/ \E m \in OnCycle(rcfg) : <<n, m>> \in DependsOnPlus(rcfg)
        /\ OnCycle(rcfg) \subseteq rres.remaining
        /\ rres.remaining \cap OnCycle(rcfg) # {}

C27_Witness ==
    /\ rpc = "done"
    /\ rcfg = <<[name |-> "A", dependencies |-> <<"A">>],
                [name |-> "B", dependencies |-> <<"A">>]>>
    /\ ~rres.ok /\ rres.remaining = {"A", "B"}
    /\ OnCycle(rcfg) = {"A"}

\* The names that list themselves among their dependencies.
SelfDependent(cfgs) ==
    {cfgs[i].name : i \in {j \in DOMAIN cfgs :
                              cfgs[j].name \in Range(cfgs[j].dependencies)}}

\* C34: a spec that lists its own name among its dependencies is a cycle:
\* resolve raises the circular-dependency error, and the reported set
\* contains that name.
C34_SelfDependencyRaises ==
    (rpc = "done" /\ SelfDependent(rcfg) # {}) =>
        /\ ~rres.ok
        /\ rres.order = <<>>
        /\ SelfDependent(rcfg) \subseteq rres.remaining

C34_Witness ==
    /\ rpc = "done"
    /\ rcfg = <<[name |-> "B", dependencies |-> <<>>],
                [name |-> "A", dependencies |-> <<"A">>]>>
    /\ ~rres.ok /\ rres.remaining = {"A"}

\* A sequence without the later occurrences of its elements.
RECURSIVE Dedupe(_)
Dedupe(deps) ==
    IF deps = <<>> THEN <<>>
    ELSE LET front == Dedupe(SubSeq(deps, 1, Len(deps) - 1))
             last == deps[Len(deps)]
         IN  IF last \in Range(front) THEN front ELSE Append(front, last)

\* The input with every dependency named once per spec.
WithoutRepeats(cfgs) ==
    [i \in DOMAIN cfgs |-> [cfgs[i] EXCEPT !.dependencies = Dedupe(@)]]

\* Some spec names an in-set dependency more than once.
HasRepeat(cfgs) ==
    \E i \in DOMAIN cfgs :
        \E j, k \in DOMAIN cfgs[i].dependencies :
            /\ j # k
            /\ cfgs[i].dependencies[j] = cfgs[i].dependencies[k]
            /\ cfgs[i].dependencies[j] \in AllAgents(cfgs)

\* The in-degrees the while loop leaves, for each iteration order of the set.
FinalInDegrees(cfgs) ==
    {KahnInDegree(InitialQueue(InDegree(cfgs), p), InDegree(cfgs), Graph(cfgs)) :
        p \in Perms(AllAgents(cfgs))}

\* C35: naming the same in-set dependency several times in one spec does not
\* change the outcome of resolve: in-degrees never become negative, the spec
\* is placed after that dependency, no name is placed twice, and an acyclic
\* input resolves.
C35_RepeatedDependencyInert ==
    rpc = "done" =>
        /\ \A d \in FinalInDegrees(rcfg) : \A n \in DOMAIN d : d[n] >= 0
        /\ \A i, j \in DOMAIN rres.order : rres.order[i] = rres.order[j] => i = j
        /\ Outcomes(WithoutRepeats(rcfg)) = Outcomes(rcfg)
        /\ (HasRepeat(rcfg) /\ Acyclic(rcfg)) =>
              /\ rres.ok
              /\ ValidOrder(rcfg, rres.order)
              /\ \A d \in FinalInDegrees(rcfg) : \A n \in DOMAIN d : d[n] = 0

C35_Witness ==
    /\ rpc = "done"
    /\ rcfg = <<[name |-> "B", dependencies |-> <<"A", "A">>],
                [name |-> "A", dependencies |-> <<>>]>>
    /\ InDegree(rcfg)["B"] = 2
    /\ rres.ok /\ rres.order = <<"A", "B">>

----------------------------------------------------------------------------
(* What the bridge and pipeline claims speak about *)

\* Every event the run has handed to event_callback, in order: those already
\* on the channel, then those whose push_to_queue is still scheduled.
Sent == channel \o [i \in DOMAIN loopReady |-> JsonDumps(loopReady[i])]

Positions(evs, type) == {i \in DOMAIN evs : evs[i].event = type}

Count(evs, type) == Cardinality(Positions(evs, type))

\* The worker has finished and every push_to_queue has run.
RunOver == wpc = "worker_done" /\ loopReady = <<>>

\* C1: in every streaming run (success, a raise at any stage, a raise in the
\* orchestrator's constructor) the worker puts exactly one `done` on the
\* channel, and nothing after it.
C1_ExactlyOneDoneLast ==
    /\ \A i \in Positions(Sent, "done") : i = Len(Sent)
    /\ wpc = "worker_done" => Count(Sent, "done") = 1
    /\ RunOver => /\ Count(channel, "done") = 1
                  /\ channel[Len(channel)].event = "done"

C1_Witness ==
    /\ RunOver
    /\ exc.at = "construct"
    /\ Len(channel) = 2
    /\ channel[1].event = "error" /\ channel[2].event = "done"

\* C2 as stated: what event_generator yields always ends with `done`, and with
\* `error` then `done` when the run failed.
C2_DeliveredEndsWithDone ==
    cpc = "stopped" =>
        /\ delivered[Len(delivered)].event = "done"
        /\ exc # NoExc =>
              /\ Len(delivered) >= 2
              /\ delivered[Len(delivered) - 1].event = "error"

\* C3: when the reasoning call of an agent raises, the run puts exactly one
\* `error` carrying str(e) on the channel, immediately followed by exactly one
\* `done`; there is no `agent_completed` for the failing agent, no
\* `agent_executing` for a later agent and no `orchestration_completed`.
C3_ReasoningFailure ==
    (exc.at = "reason" /\ exc.msg[1] = "reasoning request failed") =>
        LET failing == exc.msg[2]
        IN  /\ execution_order[idx] = failing
            /\ \A i \in Positions(Sent, "agent_completed") :
                   Sent[i].data.result.agent # failing
            /\ \A i \in Positions(Sent, "agent_executing") :
                   \E j \in 1..idx : Sent[i].data.agent = execution_order[j]
            /\ Count(Sent, "agent_executing") = idx
            /\ Count(Sent, "agent_completed") = idx - 1
            /\ Count(Sent, "orchestration_completed") = 0
            /\ Count(Sent, "error") <= 1
            /\ RunOver =>
                  /\ Count(channel, "error") = 1
                  /\ Count(channel, "done") = 1
                  /\ channel[Len(channel) - 1].event = "error"
                  /\ channel[Len(channel) - 1].data.message = exc.msg
                  /\ channel[Len(channel)].event = "done"

C3_Witness ==
    /\ RunOver
    /\ exc = [msg |-> <<"reasoning request failed", "A">>, at |-> "reason"]
    /\ execution_order = <<"A", "scenario">>
    /\ Count(channel, "error") = 1

\* C4: a run that aborts at scenario analysis, registration, resolution or an
\* agent's execution never calls save_execution_trace, and the store holds
\* what it held before the run.
C4_AbortPersistsNothing ==
    exc.at \in {"analyze", "register", "resolve", "reason"} =>
        saveCalls = 0 /\ store = store0

C4_Witness ==
    /\ RunOver
    /\ exc.at = "reason"
    /\ Len(results) = 1
    /\ store = store0 /\ store = <<OldTrace>>

\* C5: in a fully successful run with resolved order n1..nN the events hold,
\* for i = 1..N in order, one `agent_executing` for ni immediately followed by
\* one `agent_completed` carrying ni's result, nothing of the two kinds
\* elsewhere, then one `orchestration_completed`, then one `done`.
C5_SuccessfulRunEvents ==
    (RunOver /\ exc = NoExc) =>
        LET N == Len(execution_order)
            L == Len(channel)
        IN  /\ Len(results) = N
            /\ Count(channel, "agent_executing") = N
            /\ Count(channel, "agent_completed") = N
            /\ Count(channel, "orchestration_completed") = 1
            /\ Count(channel, "done") = 1
            /\ \E base \in 0..L :
                  /\ base + 2 * N < L
                  /\ \A i \in 1..N :
                        /\ channel[base + 2 * i - 1].event = "agent_executing"
                        /\ channel[base + 2 * i - 1].data.agent = execution_order[i]
                        /\ channel[base + 2 * i].event = "agent_completed"
                        /\ channel[base + 2 * i].data.result = results[i]
                  /\ \A k \in Positions(channel, "orchestration_completed") :
                        base + 2 * N < k /\ k < L
            /\ channel[L].event = "done"

C5_Witness ==
    /\ RunOver /\ exc = NoExc
    /\ execution_order = <<"scenario", "A">>
    /\ Len(results) = 2
    /\ results[1].summary = <<"llm">>

\* C6: with the worker thread and the event loop scheduled fairly, and every
\* external call returning or raising, the consumer loop of an accepted
\* request eventually stops.
C6_ConsumerStops == (cpc = "waiting") ~> (cpc = "stopped")

C6_Witness ==
    /\ cpc = "stopped"
    /\ exc = NoExc
    /\ delivered[Len(delivered)].event = "done"

\* A structural error: the analysis response failed validation, a name was
\* registered twice, or the dependencies are circular.
StructuralAbort ==
    \/ exc.at = "analyze" /\ exc.msg[1] \in
          {"LLM response missing 'agents' key.",
           "'agents' must be a non-empty list.",
           "Agent at index is not a dictionary.",
           "Agent is missing required keys",
           "'responsibilities' must be a list.",
           "'dependencies' must be a list."}
    \/ exc.at = "register"
    \/ exc.at = "resolve"

\* C9: when a run aborts on a structural error no agent's execute was called:
\* no `agent_executing` was emitted, no reasoning call was made and every
\* agent created in the run is still `pending`.
C9_StructuralAbortBeforeExecution ==
    StructuralAbort =>
        /\ Count(emitted, "agent_executing") = 0
        /\ reasonCalls = <<>>
        /\ \A i \in DOMAIN agents : i > agents0 => agents[i].status = "pending"

C9_Witness ==
    /\ RunOver
    /\ exc.at = "resolve"
    /\ Len(agents) = agents0 + 2
    /\ exc.msg[2] = {"A", "scenario"}

----------------------------------------------------------------------------
(* What the registry claims speak about *)

\* The last call named a name that was registered when it was made.
NameWasRegistered == \E i \in Range(rcall.before) : agents[i].name = rcall.name

\* C11: register_agent with an agent whose name is already registered raises
\* and leaves the registry as it was: the name still maps to the agent that
\* was registered first, and the count and the listing order are unchanged.
C11_DuplicateRegisterRejected ==
    (rcall.op = "register" /\ NameWasRegistered) =>
        /\ rcall.raised
        /\ registry = rcall.before
        /\ Len(ListAgents(registry, agents)) = Len(rcall.before)
        /\ ListAgents(registry, agents) = ListAgents(rcall.before, agents)
        /\ \E i \in Range(rcall.before) :
              /\ agents[i].name = rcall.name
              /\ i < Len(agents)
              /\ GetAgent(registry, agents, rcall.name) = i

C11_Witness ==
    /\ rcall.op = "register" /\ rcall.raised
    /\ Len(registry) = 2 /\ Len(agents) = 3
    /\ agents[1].name = agents[3].name /\ agents[1].role # agents[3].role

\* C12: get_agent raises nothing and changes nothing: for a registered name
\* it returns the agent registered under it, for any other name None.
C12_GetAgentTotal ==
    rcall.op = "get" =>
        /\ ~rcall.raised
        /\ registry = rcall.before
        /\ IF NameWasRegistered
           THEN /\ rcall.result \in Range(registry)
                /\ agents[rcall.result].name = rcall.name
           ELSE rcall.result = 0

C12_Witness ==
    /\ rcall.op = "get" /\ rcall.result = 0
    /\ Len(registry) = 1 /\ Len(agents) = 2

\* The agents whose registration succeeded, in registration order: every
\* register_agent call created one agent, and it succeeded when no agent
\* created before it carries the same name.
RECURSIVE Succeeded(_, _)
Succeeded(ags, n) ==
    IF n = 0 THEN <<>>
    ELSE Succeeded(ags, n - 1)
         \o (IF \E j \in 1..(n - 1) : ags[j].name = ags[n].name
             THEN <<>> ELSE <<ags[n]>>)

\* One call, as far as the registry's content goes.
RegistryStep ==
    /\ IsPrefix(registry, registry')
    /\ Len(registry') =
          Len(registry) + (IF rcall'.op = "register" /\ ~rcall'.raised THEN 1 ELSE 0)

\* C25: after any sequence of register_agent and get_agent calls list_agents
\* returns exactly the agents whose registration succeeded, in registration
\* order, with pairwise distinct names; the length is the number of
\* successful registrations; no call removes an agent.
C25_ListIsSuccessfulRegistrations ==
    /\ [](/\ ListAgents(registry, agents) = Succeeded(agents, Len(agents))
          /\ \A k, m \in DOMAIN registry :
                agents[registry[k]].name = agents[registry[m]].name => k = m
          /\ rcall.op = "list" =>
                /\ rcall.result = Succeeded(agents, Len(agents))
                /\ rcall.length = Len(rcall.result)
                /\ registry = rcall.before)
    /\ [][RegistryStep]_vars

C25_Witness ==
    /\ rcall.op = "list"
    /\ Len(agents) = 2 /\ agents[1].name = agents[2].name
    /\ agents[1].role # agents[2].role
    /\ rcall.result = <<agents[1]>>

----------------------------------------------------------------------------
(* What the pipeline claims about agents and stages speak about *)

\* execute has been entered on the orchestrator built for this request.
InExecute ==
    /\ wpc \notin {"idle", "rejected", "construct"}
    /\ exc.at # "construct"

\* Positions of the analysis response that carry a name.
ConfigsNamed(name) == {i \in DOMAIN agent_configs : agent_configs[i].name = name}

\* C13: the registry behind an invocation is fresh: it is empty when execute
\* starts and never holds an agent of an earlier request, so a name the
\* earlier request used registers without error; a duplicate-name error
\* can only come from two specs of the run's own analysis.
C13_FreshRegistry ==
    /\ wpc \in {"emit_init", "emit_retrieving", "retrieve", "emit_memory",
                "emit_analyzing", "analyze", "emit_designed", "emit_creating"}
          => registry = <<>>
    /\ InExecute => \A i \in Range(registry) : i > agents0
    /\ exc.at = "register" => Cardinality(ConfigsNamed(exc.msg[2])) >= 2

C13_Witness ==
    /\ RunOver /\ exc = NoExc
    /\ agents0 = 1 /\ agents[1].name = "A" /\ agents[1].status = "completed"
    /\ registry = <<2>> /\ agents[2].name = "A"

\* The agent whose execute is in progress.
Current == GetAgent(registry, agents, execution_order[idx])

\* One step of the program, as far as the agents' statuses go.
StatusStep ==
    /\ Len(agents') >= Len(agents)
    /\ \A i \in DOMAIN agents' :
          IF i \notin DOMAIN agents
          THEN agents'[i].status = "pending"
          ELSE agents'[i].status # agents[i].status =>
                  /\ i = Current
                  /\ \/ /\ wpc = "execute" /\ wpc' = "reason"
                        /\ agents[i].status = "pending"
                        /\ agents'[i].status = "running"
                     \/ /\ wpc = "reason" /\ wpc' = "emit_completed"
                        /\ agents[i].status = "running"
                        /\ agents'[i].status = "completed"
    /\ (wpc = "execute" /\ wpc' = "reason") =>
          agents[Current].status = "pending" /\ agents'[Current].status = "running"
    /\ (wpc = "reason" /\ wpc' = "emit_completed") =>
          agents'[Current].status = "completed"
    /\ (wpc = "reason" /\ wpc' = "except") =>
          agents'[Current].status = "running"

\* C14: an agent is created pending, becomes running when its execute starts
\* and completed exactly when the reasoning call returns; a status only moves
\* pending -> running -> completed, and only in the agent's own execute.
C14_StatusMachine == [][StatusStep]_vars

C14_Witness ==
    /\ wpc = "reason"
    /\ Len(agents) = agents0 + 2
    /\ agents[agents0 + 1].status = "completed"
    /\ agents[agents0 + 2].status = "running"

\* C15 as stated: a reasoning response that was received but is no well-formed
\* result (text without JSON, JSON that is no object) is recovered inside
\* execute, which returns agent = the agent's name, status `completed` and a
\* synthesized summary; only a failure to reach the service propagates.
C15_MalformedRecovered ==
    /\ exc.at = "reason" => exc.msg[1] = "reasoning request failed"
    /\ \A j \in DOMAIN results :
          results[j].summary[1] = "fallback" =>
              /\ results[j].agent = execution_order[j]
              /\ results[j].status = "completed"
              /\ agents[GetAgent(registry, agents, execution_order[j])].status
                    = "completed"

\* The agent at position idx of the resolved order is executing.
Executing == wpc \in {"execute", "reason"}

\* What the context holds when the agent at position idx starts.
ContextAtStart ==
    Executing =>
        /\ DOMAIN context = {"scenario"} \cup {execution_order[j] : j \in 1..(idx - 1)}
        /\ \A j \in 1..(idx - 1) : context[execution_order[j]] = results[j]
        /\ \A d \in Range(agents[Current].dependencies) :
              d \in AllAgents(agent_configs) => d \in DOMAIN context

\* A step removes no entry and rewrites no agent's entry.
ContextStep ==
    /\ DOMAIN context \subseteq DOMAIN context'
    /\ \A k \in DOMAIN context \ {"scenario"} : context'[k] = context[k]

Running == {i \in DOMAIN agents : agents[i].status = "running"}

\* C17: at most one agent is running at any time, and an agent starts only
\* when every agent before it in the resolved order is completed.
C17_OneAtATime ==
    /\ Cardinality(Running) <= 1
    /\ wpc \in {"execute", "reason", "emit_completed"} =>
          /\ \A j \in 1..(idx - 1) :
                agents[GetAgent(registry, agents, execution_order[j])].status
                   = "completed"
          /\ Running \subseteq {Current}

C17_Witness ==
    /\ wpc = "execute" /\ idx = 2
    /\ execution_order = <<"scenario", "A">>
    /\ agents[GetAgent(registry, agents, "scenario")].status = "completed"
    /\ agents[GetAgent(registry, agents, "A")].status = "pending"

\* C18: the consumer receives the events in the order the pipeline emitted
\* them, none lost, duplicated or reordered, up to and including the first
\* terminal event.
C18_StreamFifo ==
    /\ IsPrefix(delivered, emitted)
    /\ delivered \o queue = channel
    /\ IsPrefix(channel, emitted)
    /\ Len(channel) + Len(loopReady) = Len(emitted)
    /\ \A i \in 1..(Len(delivered) - 1) : ~Terminal(delivered[i])
    /\ cpc = "stopped" => Terminal(delivered[Len(delivered)])
    /\ (cpc = "waiting" /\ delivered # <<>>) => ~Terminal(delivered[Len(delivered)])

C18_Witness ==
    /\ cpc = "stopped" /\ exc = NoExc
    /\ Len(delivered) = 15
    /\ delivered = emitted
    /\ delivered[9].event = "agent_executing"

\* The `step` texts of the status events, in the order of their stages.
StageSteps ==
    <<"Retrieving memory context...", "Analyzing scenario with LLM...",
      "Creating agents...", "Resolving dependencies...",
      "Saving execution trace...">>

\* The status events of the stages (the first status precedes stage 1).
StageStatusPositions ==
    {i \in Positions(emitted, "status") : emitted[i].data.step \in Range(StageSteps)}

\* C19 as stated: in a run with a callback the stages run in the fixed order
\* retrieval, analysis, creation/registration, resolution, execution,
\* persistence, and each of them emits a `status` event before it starts and
\* a completion event of its own after it finishes.
C19_StagesBracketed ==
    (wpc = "worker_done" /\ exc = NoExc) =>
        /\ \A a, b \in DOMAIN StageSteps :
              a < b => \E i, j \in StageStatusPositions :
                          /\ i < j
                          /\ emitted[i].data.step = StageSteps[a]
                          /\ emitted[j].data.step = StageSteps[b]
        \* a stage's status is followed by that stage's completion event, not
        \* by the next stage's status
        /\ \A i \in StageStatusPositions : emitted[i + 1].event # "status"
        \* the execution stage is announced by a status event
        /\ \A k \in Positions(emitted, "agent_executing") :
              emitted[k - 1].event \in {"status", "agent_completed"}

\* C20: in a successful run save_execution_trace is called exactly once, after
\* the last agent completed and before `orchestration_completed` is emitted
\* and the result returned; the store gains exactly one entry per successful
\* run and never loses one.
C20_SaveOncePerSuccess ==
    /\ saveCalls <= 1
    /\ saveCalls = 1 =>
          /\ idx = Len(execution_order) + 1
          /\ Len(results) = Len(execution_order)
          /\ Count(emitted, "agent_completed") = Len(execution_order)
          /\ \A i \in Range(registry) : agents[i].status = "completed"
    /\ (Count(emitted, "orchestration_completed") > 0 \/ returned # NoResult) =>
          saveCalls = 1 /\ Len(store) = Len(store0) + 1
    /\ (wpc = "worker_done" /\ exc = NoExc) =>
          /\ saveCalls = 1
          /\ Len(store) = Len(store0) + 1
          /\ store[Len(store)].content[1] = scenario
          /\ store[Len(store)].content[2] = execution_order
    /\ IsPrefix(store0, store)
    /\ Len(store) <= Len(store0) + 1

C20_Witness ==
    /\ wpc = "worker_done" /\ exc = NoExc
    /\ store0 = <<OldTrace>>
    /\ Len(store) = 2 /\ store[1] = OldTrace
    /\ store[2].content[2] = <<"A", "scenario">>

----------------------------------------------------------------------------
(* What the memory claims speak about *)

\* C21: init_session leaves an empty working memory, whatever outputs were
\* stored before: get_all_outputs is empty and get_agent_output is None for
\* every name; the registry and the similarity store are as they were.
C21_InitSessionClears ==
    rcall.op = "init_session" =>
        /\ DOMAIN GetAllOutputs(short_term) = {}
        /\ \A name \in MemoryNames \cup {"scenario"} :
              GetAgentOutput(short_term, name) = NoResult
        /\ ListAgents(registry, agents) = rcall.registry
        /\ store = rcall.store

C21_Witness ==
    /\ rcall.op = "init_session"
    /\ DOMAIN rcall.before = {"A", "B"}
    /\ DOMAIN short_term = {}
    /\ store = <<OldTrace>> /\ Len(rcall.registry) = 1

\* The trace strings of a result come from different entries of the store.
FromDistinctEntries(ctx, st) ==
    \E f \in [DOMAIN ctx -> DOMAIN st] :
        /\ \A i \in DOMAIN ctx : ctx[i] = st[f[i]].content
        /\ \A i, j \in DOMAIN ctx : f[i] = f[j] => i = j

\* C22: retrieve_context against a store of n entries returns min(3, n) trace
\* strings of the store, the empty sequence when n = 0, raises nothing on
\* account of n and leaves the store alone.
C22_RetrieveMinThree ==
    rcall.op = "retrieve_context" =>
        LET n == Len(rcall.store)
        IN  /\ Len(rcall.result) = IF n < 3 THEN n ELSE 3
            /\ n = 0 => rcall.result = <<>>
            /\ FromDistinctEntries(rcall.result, rcall.store)
            /\ store = rcall.store

C22_Witness ==
    /\ rcall.op = "retrieve_context"
    /\ Len(store) = 4
    /\ Len(rcall.result) = 3

----------------------------------------------------------------------------
(* What the further pipeline claims speak about *)

\* The payloads of the events of one type, in emission order.
RECURSIVE PayloadsOf(_, _)
PayloadsOf(evs, type) ==
    IF evs = <<>> THEN <<>>
    ELSE (IF Head(evs).event = type THEN <<Head(evs).data>> ELSE <<>>)
         \o PayloadsOf(Tail(evs), type)

\* C23: the aggregate a successful run returns holds the resolver's order, one
\* result per name of that order in the same order, agents_created = size of
\* the run's registry = length of the order, the input scenario and the
\* memory context retrieved at stage 1; a run that raises returns nothing.
C23_AggregateConsistent ==
    /\ returned # NoResult =>
          /\ exc = NoExc
          /\ returned.execution_order = execution_order
          /\ ValidOrder(agent_configs, returned.execution_order)
          /\ Len(returned.results) = Len(returned.execution_order)
          /\ reasonCalls = returned.execution_order
          /\ \A i \in DOMAIN returned.results :
                /\ returned.results[i] = short_term[returned.execution_order[i]]
                /\ PayloadsOf(emitted, "agent_executing")[i].agent
                      = returned.execution_order[i]
                /\ PayloadsOf(emitted, "agent_completed")[i].result
                      = returned.results[i]
          /\ returned.agents_created = Len(registry)
          /\ returned.agents_created = Len(returned.execution_order)
          /\ returned.scenario = scenario
          /\ returned.memory_context_used = memory_context
          /\ PayloadsOf(emitted, "memory_retrieved") = <<[context |-> memory_context]>>
          /\ PayloadsOf(emitted, "dependency_resolved")
                = <<[order |-> returned.execution_order]>>
    /\ exc # NoExc => returned = NoResult

C23_Witness ==
    /\ returned # NoResult
    /\ Len(agent_configs) = 2
    /\ agent_configs[1].dependencies = <<agent_configs[2].name>>
    /\ returned.execution_order = <<agent_configs[2].name, agent_configs[1].name>>
    /\ returned.agents_created = 2
    /\ Len(returned.memory_context_used) = 1

\* An analysis response that parsed but is not a non-empty list of objects
\* carrying name, role and the two lists.
Malformed(resp) ==
    \/ resp.kind \in {"no_agents_key", "agents_not_list"}
    \/ resp.kind = "agents" /\ resp.agents = <<>>
    \/ \E i \in DOMAIN resp.agents : resp.agents[i].shape \in BadShapes

\* C24: a malformed analysis response makes analyze_scenario raise, and when
\* it raises nothing has been built: no agent was created, the registry is
\* empty, no `agents_designed` was emitted and the resolver was not called.
C24_MalformedAnalysisRaisesEarly ==
    /\ wpc = "analyze" =>
          \A resp \in AnalysisResponses :
              Malformed(resp) => AnalyzeScenario(resp).raised
    /\ exc.at = "analyze" =>
          /\ Len(agents) = agents0
          /\ registry = <<>>
          /\ agent_configs = <<>>
          /\ Count(emitted, "agents_designed") = 0
          /\ Count(emitted, "dependency_resolved") = 0
          /\ execution_order = <<>>
          /\ \A i \in Positions(emitted, "status") :
                emitted[i].data.step \notin
                   {"Creating agents...", "Resolving dependencies..."}
    /\ Count(emitted, "agents_designed") > 0 =>
          /\ agent_configs # <<>>
          /\ PayloadsOf(emitted, "agents_designed") = <<[agents |-> agent_configs]>>

C24_Witness ==
    /\ RunOver
    /\ exc.at = "analyze"
    /\ exc.msg = <<"'dependencies' must be a list.", "A">>
    /\ store0 = <<OldTrace>>

----------------------------------------------------------------------------
(* The consumer *)

\* The events of a stream that end it.
Ending(s) == {i \in DOMAIN s : s[i].event \in {"done", "error"}}

\* One step, as far as the consumer's output goes.
YieldStep ==
    /\ delivered' # delivered =>
          /\ cpc = "waiting" /\ queue # <<>>
          /\ delivered' = Append(delivered, Head(queue))
          /\ queue' = Tail(queue)
    /\ cpc = "stopped" => delivered' = delivered /\ cpc' = "stopped"

\* C28: event_generator yields every event it dequeues up to and including
\* the first event of type done or error, and nothing after it, even when
\* further events are on the channel.
C28_StopsAtFirstTerminal ==
    /\ [](/\ delivered = SubSeq(channel, 1, Len(delivered))
          /\ Ending(delivered) \subseteq {Len(delivered)}
          /\ cpc = "stopped" <=> Ending(delivered) # {})
    /\ [][YieldStep]_vars

C28_Witness ==
    /\ cpc = "stopped"
    /\ delivered[Len(delivered)].event = "error"
    /\ queue # <<>> /\ Head(queue).event = "done"
    /\ Len(channel) = Len(delivered) + 1
    /\ wpc = "worker_done"


----------------------------------------------------------------------------
(* The model of a run *)

\* C29: when two streaming requests that select different models run
\* concurrently, every reasoning-service client built for a run (the
\* orchestrator's and the one of each BaseAgent.execute) uses the model its
\* own request selected, under every interleaving of the worker threads.
C29_ClientsUseOwnModel ==
    (Len(runs) = 2 /\ runs[1].model # runs[2].model) =>
        \A w \in DOMAIN runs :
            \A i \in DOMAIN runs[w].clients :
                runs[w].clients[i] = runs[w].model


----------------------------------------------------------------------------
(* The scenario entry of the context *)

\* C30: throughout stage 5 the scenario entry of the shared context is the
\* original scenario text, whatever names the analysis gave the agents (an
\* agent named `scenario` included); merging a result overwrites neither the
\* scenario entry nor another agent's result.
C30_ScenarioEntryKept ==
    context # <<>> =>
        /\ context["scenario"] = Str(scenario)
        /\ \A j \in 1..Len(results) :
              (execution_order[j] # "scenario" /\ execution_order[j] \in DOMAIN context)
                  => context[execution_order[j]] = results[j]


----------------------------------------------------------------------------
(* Stage 5 and the registry *)

\* Stage 5 has begun (the order is resolved) and the run has not ended.
InStage5 == wpc \in {"loop", "execute", "reason", "emit_completed"}

\* C31: every name of the resolved order is found in the registry, so the
\* not-found branch is never taken: every resolved name is executed exactly
\* once, in order, and on success there are as many results as names.
C31_ResolvedNamesRegistered ==
    /\ \A i \in DOMAIN execution_order :
          GetAgent(registry, agents, execution_order[i]) # 0
    /\ \A i, j \in DOMAIN execution_order :
          execution_order[i] = execution_order[j] => i = j
    /\ IsPrefix(reasonCalls, execution_order)
    /\ InStage5 =>
          /\ Len(reasonCalls) = (IF wpc \in {"loop", "execute", "reason"}
                                 THEN idx - 1 ELSE idx)
          /\ Len(results) = (IF wpc = "emit_completed" THEN idx ELSE idx - 1)
    /\ returned # NoResult =>
          /\ reasonCalls = execution_order
          /\ Len(results) = Len(execution_order)
          /\ Len(returned.results) = Len(returned.execution_order)

C31_Witness ==
    /\ returned # NoResult
    /\ Len(execution_order) = 2 /\ Len(results) = 2
    /\ reasonCalls = execution_order
    /\ Len(agents) = agents0 + 2


\* The agent of the run at position j of the resolved order.
AgentAt(j) == agents[GetAgent(registry, agents, execution_order[j])]

\* C32: no agent ever has status failed: when the reasoning call of an agent
\* raises, that agent stays running, the agents later in the resolved order
\* stay pending, the earlier ones stay completed, and the working memory and
\* the context hold results for the earlier agents only.
C32_NoFailedStatus ==
    /\ \A i \in DOMAIN agents :
          agents[i].status \in {"pending", "running", "completed"}
    /\ exc.at = "reason" =>
          /\ AgentAt(idx).status = "running"
          /\ \A j \in DOMAIN execution_order :
                /\ j < idx => AgentAt(j).status = "completed"
                /\ j > idx => AgentAt(j).status = "pending"
          /\ DOMAIN short_term = {execution_order[j] : j \in 1..(idx - 1)}
          /\ DOMAIN context = {"scenario"} \cup DOMAIN short_term
          /\ \A j \in 1..(idx - 1) :
                /\ short_term[execution_order[j]] = results[j]
                /\ context[execution_order[j]] = results[j]
          /\ Len(results) = idx - 1

C32_Witness ==
    /\ RunOver /\ exc.at = "reason"
    /\ Len(execution_order) = 2 /\ idx = 2
    /\ AgentAt(1).status = "completed" /\ AgentAt(2).status = "running"
    /\ DOMAIN short_term = {execution_order[1]}
    /\ Len(results) = 1


----------------------------------------------------------------------------
(* Isolation of concurrent requests *)

\* The names the analysis gave the agents of run w.
NamesOf(w) == {runs[w].agent_configs[i].name : i \in DOMAIN runs[w].agent_configs}

\* Run w's stream carries the events run w emitted, in order.
OwnChannel(w) ==
    /\ runs[w].delivered \o runs[w].queue = runs[w].emitted
    /\ \A i \in DOMAIN runs[w].delivered :
          LET ev == runs[w].delivered[i]
          IN  /\ ev.event = "agents_designed" =>
                    ev.data.agents = runs[w].agent_configs
              /\ ev.event = "agent_completed" =>
                    /\ ev.data.result.summary = <<"llm", runs[w].scenario>>
                    /\ ev.data.result.agent \in NamesOf(w)

\* Run w's registry and working memory hold its own agents and outputs.
OwnRegistryAndMemory(w) ==
    /\ Len(runs[w].registry) \in {0, Len(runs[w].agent_configs)}
    /\ \A i \in DOMAIN runs[w].registry :
          runs[w].registry[i].name = runs[w].agent_configs[i].name
    /\ DOMAIN runs[w].short_term \subseteq NamesOf(w)
    /\ \A n \in DOMAIN runs[w].short_term :
          runs[w].short_term[n] = RunResult(n, runs[w].scenario)

\* The traces in run w's memory context that another run of the two wrote.
ForeignContext(w) ==
    {i \in DOMAIN runs[w].memory_context :
        \E v \in DOMAIN runs :
            v # w /\ runs[w].memory_context[i][1] = runs[v].scenario}

\* C33 as stated: concurrent requests are isolated: each has its own
\* channel, registry and working memory, every delivered event was emitted
\* by the request's own run, and no agent or agent output of one run is
\* visible to the other, under every interleaving.
C33_RunsIsolated ==
    \A w \in DOMAIN runs :
        /\ OwnChannel(w)
        /\ OwnRegistryAndMemory(w)
        /\ ForeignContext(w) = {}

\* C33, amended: channel, registry and working memory are the request's own;
\* the similarity store is shared, and the only outputs of the other run a
\* run sees are the traces that run had saved before this run's retrieval.
C33_RunsIsolatedUpToStore ==
    \A w \in DOMAIN runs :
        /\ OwnChannel(w)
        /\ OwnRegistryAndMemory(w)
        /\ \A i \in DOMAIN runs[w].memory_context :
              \E k \in DOMAIN store :
                  store[k].content = runs[w].memory_context[i]
        /\ \A i \in ForeignContext(w) :
              \E v \in DOMAIN runs :
                  /\ v # w /\ runs[v].pc \in {"finally", "worker_done"}
                  /\ runs[w].memory_context[i] =
                        <<runs[v].scenario, runs[v].execution_order,
                          [j \in DOMAIN runs[v].results |->
                              <<runs[v].results[j].agent, runs[v].results[j].summary>>]>>

C33_Witness ==
    /\ \A w \in DOMAIN runs :
          /\ runs[w].pc = "worker_done" /\ runs[w].queue = <<>>
          /\ runs[w].delivered[Len(runs[w].delivered)].event = "done"
          /\ Len(runs[w].delivered) = 4
          /\ runs[w].agent_configs[1].name = "A"
    /\ ForeignContext(2) # {}
    /\ ForeignContext(1) = {}
    /\ store0 = <<>>


----------------------------------------------------------------------------
(* Working memory and context *)

\* The context restricted to the names of the run's agents.
ContextOfAgents ==
    [n \in DOMAIN context \cap AllAgents(agent_configs) |-> context[n]]

\* C36: at every point of stage 5 the working memory's agent outputs equal
\* the context restricted to agent names: after agent X completes,
\* get_agent_output(X) is X's result, and at the end of a successful run
\* get_all_outputs has exactly one entry per name of the execution order.
C36_WorkingMemoryMirrorsContext ==
    /\ (InStage5 \/ (context # <<>> /\ exc = NoExc)) =>
          /\ DOMAIN short_term = DOMAIN ContextOfAgents
          /\ \A n \in DOMAIN short_term : short_term[n] = ContextOfAgents[n]
          /\ \A j \in DOMAIN execution_order :
                AgentAt(j).status = "completed" /\ wpc # "emit_completed" =>
                    GetAgentOutput(short_term, execution_order[j]) = results[j]
    /\ returned # NoResult =>
          /\ DOMAIN GetAllOutputs(short_term) = Range(execution_order)
          /\ Cardinality(DOMAIN GetAllOutputs(short_term)) = Len(execution_order)

\* The same relation for every key but `scenario`, which the scenario text
\* and an agent of that name share.
MirrorsExceptScenarioKey ==
    /\ (InStage5 \/ (context # <<>> /\ exc = NoExc)) =>
          /\ DOMAIN short_term \ {"scenario"} = DOMAIN ContextOfAgents \ {"scenario"}
          /\ \A n \in DOMAIN short_term : short_term[n] = context[n]
          /\ \A j \in DOMAIN execution_order :
                AgentAt(j).status = "completed" /\ wpc # "emit_completed" =>
                    GetAgentOutput(short_term, execution_order[j]) = results[j]
    /\ returned # NoResult =>
          /\ DOMAIN GetAllOutputs(short_term) = Range(execution_order)
          /\ Cardinality(DOMAIN GetAllOutputs(short_term)) = Len(execution_order)


----------------------------------------------------------------------------
(* The memory context of a run *)

\* Stage 1 has read the memory context.
Retrieved == Count(emitted, "memory_retrieved") > 0 \/ wpc = "emit_memory"

\* The documents the collection held when the request arrived.
DocumentsBefore == {store0[k].content : k \in DOMAIN store0}

\* A step changes the memory context only at stage 1, before any write of
\* the run to the store, and an agent's reasoning call leaves it alone.
MemoryContextStep ==
    /\ memory_context' # memory_context =>
          /\ wpc = "retrieve" /\ wpc' = "emit_memory"
          /\ store = store0 /\ saveCalls = 0 /\ reasonCalls = <<>>
    /\ reasonCalls' # reasonCalls =>
          /\ Retrieved
          /\ memory_context' = memory_context
          /\ store = store0

\* C37: the memory context is read once, at stage 1, before the run writes
\* to the similarity store: every agent receives the same memory context, the
\* run's own trace is never in it, and the memory_retrieved event and the
\* returned memory_context_used carry that context.
C37_MemoryContextReadOnce ==
    /\ [](/\ ~Retrieved => memory_context = <<>>
          /\ Retrieved =>
                /\ memory_context \in RetrieveSimilar(store0, TopK)
                /\ Range(memory_context) \subseteq DocumentsBefore
                /\ \A k \in (Len(store0) + 1)..Len(store) :
                      store[k].content \notin Range(memory_context)
          /\ \A i \in Positions(emitted, "memory_retrieved") :
                emitted[i].data = [context |-> memory_context]
          /\ Count(emitted, "memory_retrieved") <= 1
          /\ returned # NoResult =>
                returned.memory_context_used = memory_context)
    /\ [][MemoryContextStep]_vars

C37_Witness ==
    /\ returned # NoResult
    /\ store0 = <<OldTrace>> /\ Len(store) = 2
    /\ memory_context = <<OldTrace.content>>
    /\ returned.memory_context_used = <<OldTrace.content>>
    /\ Len(reasonCalls) = 2


----------------------------------------------------------------------------
(* A rejected request *)

\* One step, as far as a request with an empty scenario goes: it starts no
\* worker, and once rejected nothing changes.
RejectStep ==
    /\ (wpc = "idle" /\ Strip(scenario') = "") =>
          /\ wpc' = "rejected" /\ cpc' = "none"
          /\ UNCHANGED <<LLM_MODEL, store, emitted, queue, channel, delivered,
                         loopReady, registry, agents, short_term>>
    /\ (wpc = "idle" /\ Strip(scenario') # "") => wpc' = "construct"
    /\ wpc = "rejected" => UNCHANGED vars

\* C38: a streaming request whose scenario is empty or only whitespace is
\* rejected before any worker is started: no orchestrator is constructed,
\* no event is emitted, and neither the model configuration nor the
\* similarity store is changed.
C38_EmptyScenarioRejected ==
    /\ [](/\ wpc = "rejected" <=> (wpc # "idle" /\ Strip(scenario) = "")
          /\ wpc = "rejected" =>
                /\ LLM_MODEL = DefaultModel /\ store = store0
                /\ emitted = <<>> /\ channel = <<>> /\ delivered = <<>>
                /\ cpc = "none" /\ exc = NoExc
                /\ Len(agents) = agents0
                /\ registry = [i \in 1..agents0 |-> i]
                /\ saveCalls = 0 /\ reasonCalls = <<>>)
    /\ [][RejectStep]_vars

C38_Witness ==
    /\ wpc = "rejected" /\ scenario = " "
    /\ store = <<OldTrace>> /\ LLM_MODEL = DefaultModel
    /\ emitted = <<>>


====
